---- MODULE Spec2Model ----
(***************************************************************************)
(* sysrepo 0.5.11: the data manager (sessions, working copies, locks,       *)
(* commit) and the request processor (worker threads, commit_lock).         *)
(*                                                                          *)
(* Spec   : the data manager, one step per dm_ / rp_dt_ call of a session.  *)
(* SpecLock : the module and datastore locks of two sessions.              *)
(* SpecRP : the request processor's worker threads dispatching messages.    *)
(*                                                                          *)
(* A data tree is the set of values of the single leaf of its module: {}    *)
(* is the empty tree, {v} a tree whose leaf holds v.  A value written by    *)
(* set_item is <<session, serial>>, so that a value names its author.       *)
(* All sessions run with the same credentials (dm_test.c starts them with   *)
(* NULL credentials), so no open() is refused with EACCES.                  *)
(***************************************************************************)
EXTENDS Integers, Sequences, FiniteSets, TLC

\* ------------------------------------------------------------- bounds
MaxEdits == 2
MaxFaults == 1
MaxMsgs == 3
MaxReads == 2
MaxId == 2
MaxCopies == 1

\* ---------------------------------------------------- program constants
SR_DS_STARTUP == 0
SR_DS_RUNNING == 1
SR_DS_CANDIDATE == 2

Datastores == {SR_DS_STARTUP, SR_DS_RUNNING}
Sessions == {"A", "B"}
CommitSession == "c_ctx"
Owners == Sessions \cup {CommitSession}
Modules == <<"m1", "m2">>
ModuleNames == {Modules[i] : i \in 1..Len(Modules)}
Keys == ModuleNames \X Datastores

SR_ERR_OK == "SR_ERR_OK"
SR_ERR_VALIDATION_FAILED == "SR_ERR_VALIDATION_FAILED"
SR_ERR_INVAL_ARG == "SR_ERR_INVAL_ARG"
SR_ERR_INTERNAL == "SR_ERR_INTERNAL"
SR_ERR_OPERATION_FAILED == "SR_ERR_OPERATION_FAILED"
SR_ERR_LOCKED == "SR_ERR_LOCKED"
SR_ERR_NOT_FOUND == "SR_ERR_NOT_FOUND"
SR_ERR_UNAUTHORIZED == "SR_ERR_UNAUTHORIZED"
SR_ERR_UNKNOWN_MODEL == "SR_ERR_UNKNOWN_MODEL"
SR_ERR_IO == "SR_ERR_IO"

\* rp_request_state_t
RP_REQ_NEW == "RP_REQ_NEW"
RP_REQ_WAITING_FOR_DATA == "RP_REQ_WAITING_FOR_DATA"
RP_REQ_DATA_LOADED == "RP_REQ_DATA_LOADED"
RP_REQ_FINISHED == "RP_REQ_FINISHED"

\* session->req == NULL; the reads are numbered from 1
NoMsg == 0

DM_COMMIT_CTX_ID_INVALID == 0
DM_COMMIT_CTX_ID_MAX_ATTEMPTS == 100
NANOSEC_THRESHOLD == 10000000

\* no commit context is being prepared or committed
NoCtx == [phase |-> "none", id |-> DM_COMMIT_CTX_ID_INVALID, attempts |-> 0]

VARIABLES
    sessions,          \* the started dm sessions
    datastore,         \* session->datastore
    locked_files,      \* session->locked_files, also of c_ctx->session
    holds_ds_lock,     \* session->holds_ds_lock
    locking_ctx,       \* dm_ctx->locking_ctx: the lock files locked in the process
    ds_lock,           \* dm_ctx->ds_lock
    session_modules,   \* session->session_modules[session->datastore]: module -> data info
    operations,        \* session->operations[session->datastore]
    files,             \* the data file of each module and datastore
    last_commit_time,  \* dm_ctx->last_commit_time
    clock,             \* CLOCK_REALTIME
    c_ctx,             \* the commit context of the commit in progress
    np_notified,       \* subscriptions notified by the last commit, and those yet to answer
    edits,             \* number of set_item calls so far
    faults,            \* number of failed file writes so far
    persisted,         \* history: the values ever printed to a data file
    committed,         \* history: the tree the last successful commit left in each file
    ended_holding,     \* history: the lock files each session held when it was last stopped
    last_lock,         \* the last lock, unlock or validate call, and what it returned
    last_commit,       \* the last commit request answered, and what it returned
    request_queue,     \* rp_ctx->request_queue
    active_threads,    \* rp_ctx->active_threads
    commit_lock,       \* rp_ctx->commit_lock: the threads holding it for reading, for writing
    msg_count,         \* session->msg_count of the rp sessions
    stop_requested,    \* session->stop_requested of the rp sessions
    cleanups,          \* history: how often rp_session_cleanup was called for a session
    pc,                \* where each worker thread is in rp_worker_thread_execute
    req,               \* the request a worker thread has dequeued
    sent,              \* number of messages passed to rp_msg_process so far
    thread_spin_limit, \* rp_ctx->thread_spin_limit
    node_state,        \* the state of each schema node: its enablement in running
    hung,              \* the sessions whose request never returns
    rp_state,          \* session->state of the rp sessions
    cur_req,           \* session->req: the read the session keeps, or NoMsg
    dp_req_waiting,    \* session->dp_req_waiting
    oper_queue,        \* the reads passed to rp_msg_process and not yet dispatched
    timers,            \* the oper-data-timeout messages sent and not yet delivered
    dp_requests,       \* the requests sent to data providers and not yet answered
    reads,             \* number of reads the clients have sent
    suspended,         \* history: the reads that were paused waiting for data
    answered,          \* history: the reads a response was sent for
    freed,             \* history: the read messages freed
    cur_req_mutex,     \* session->cur_req_mutex: the worker that holds it, or ""
    handler,           \* where each worker is in the handler of a read
    unprotected,       \* history: accesses to session->req made without the mutex
    commit_ctxs,       \* dm_ctx->commit_ctxs.tree: the ids of the saved commit contexts
    removing,          \* the id dm_remove_commit_context is deleting from the tree
    new_ctx,           \* the commit context dm_commit_prepare_context allocated
    prepare_rc,        \* what the last dm_commit_prepare_context returned
    np_commits,        \* per commit id: the notified subscribers yet to acknowledge
    ly_ctx,            \* dm_ctx->ly_ctx: the modules whose schema libyang has loaded
    md_ctx,            \* dm_ctx->md_ctx: the modules in the dependency graph
    disabled_sch,      \* dm_ctx->disabled_sch
    features,          \* the enabled features of each module in ly_ctx
    pm_features,       \* the enabled features the persistence manager has saved
    last_req           \* the last schema or copy request, and what it returned

lockvars == <<locked_files, holds_ds_lock, locking_ctx, ds_lock>>
sessvars == <<sessions, datastore>>
datavars == <<session_modules, operations, edits>>
filevars == <<files, last_commit_time, clock, faults, persisted, committed>>
commitvars == <<c_ctx, np_notified>>
histvars == <<ended_holding, last_lock, last_commit>>
dmvars == <<lockvars, sessvars, datavars, filevars, commitvars, histvars>>
stopvars == <<stop_requested, cleanups>>
rpvars == <<request_queue, active_threads, commit_lock, msg_count, pc, req, sent, stopvars,
           thread_spin_limit>>
schemavars == <<node_state, hung>>
mutexvars == <<cur_req_mutex, handler, unprotected>>
opervars == <<rp_state, cur_req, dp_req_waiting, oper_queue, timers, dp_requests, reads,
              suspended, answered, freed, mutexvars>>
ctxvars == <<commit_ctxs, removing, new_ctx, prepare_rc, np_commits>>
regvars == <<ly_ctx, md_ctx, disabled_sch, features, pm_features, last_req>>
vars == <<dmvars, rpvars, schemavars, opervars, ctxvars, regvars>>

Op(name, s, arg, rc) == [op |-> name, s |-> s, arg |-> arg, rc |-> rc]

\* ------------------------------------------------------------- locks
sr_get_lock_data_file_name(m, ds) == <<m, ds>>

\* the lock files of the modules in ms
LockFiles(ms, ds) == {sr_get_lock_data_file_name(m, ds) : m \in ms}

\* sr_locking_set_lock_file_open(lock_ctx, filename, write, non-blocking): a file
\* locked in the set gives SR_ERR_LOCKED; open() of a file the identity may not
\* write (those in `denied`) gives SR_ERR_UNAUTHORIZED
sr_locking_set_lock_file_open(ctx, key, denied) ==
    IF key \in ctx THEN SR_ERR_LOCKED
    ELSE IF key \in denied THEN SR_ERR_UNAUTHORIZED
    ELSE SR_ERR_OK

dm_lock_file(ctx, key, denied) == sr_locking_set_lock_file_open(ctx, key, denied)

dm_unlock_file(ctx, key) == ctx \ {key}

\* C8 mutant: the result of dm_lock_file is not looked at
dm_lock_module_unchecked(ctx, lf, key, denied) ==
    [rc |-> SR_ERR_OK, lf |-> lf \cup {key}, ctx |-> ctx \cup {key}]

\* dm_lock_module on the lock file `key` by a session whose locked_files is lf
dm_lock_module(ctx, lf, key, denied) ==
    IF key \in lf
    THEN [rc |-> SR_ERR_OK, lf |-> lf, ctx |-> ctx]
    ELSE LET rc == dm_lock_file(ctx, key, denied)
         IN  IF rc = SR_ERR_OK
             THEN [rc |-> rc, lf |-> lf \cup {key}, ctx |-> ctx \cup {key}]
             ELSE [rc |-> rc, lf |-> lf, ctx |-> ctx]

dm_unlock_module(ctx, lf, key) ==
    IF key \notin lf
    THEN [rc |-> SR_ERR_INVAL_ARG, lf |-> lf, ctx |-> ctx]
    ELSE [rc |-> SR_ERR_OK, lf |-> lf \ {key}, ctx |-> dm_unlock_file(ctx, key)]

\* the loop of dm_lock_datastore over the schemas, from the i-th on; `locked`
\* collects the modules dm_lock_module returned OK for, rc is the result of the
\* last dm_lock_module.  A module that is SR_ERR_UNAUTHORIZED is skipped
\* (continue); any other failure unlocks the modules in `locked` and gives
\* ds_lock back.
RECURSIVE dm_lock_datastore_loop(_, _, _, _, _, _, _)
dm_lock_datastore_loop(i, ds, ctx, lf, locked, denied, rc) ==
    IF i > Len(Modules)
    THEN [rc |-> rc, lf |-> lf, ctx |-> ctx, held |-> TRUE]
    ELSE LET key == sr_get_lock_data_file_name(Modules[i], ds)
             r == dm_lock_module(ctx, lf, key, denied)
         IN  IF r.rc = SR_ERR_OK
             THEN dm_lock_datastore_loop(i + 1, ds, r.ctx, r.lf, locked \cup {key},
                                         denied, r.rc)
             ELSE IF r.rc = SR_ERR_UNAUTHORIZED
             THEN dm_lock_datastore_loop(i + 1, ds, ctx, lf, locked, denied, r.rc)
             ELSE [rc |-> r.rc, lf |-> lf \ locked, ctx |-> ctx \ (locked \cap lf),
                   held |-> FALSE]

\* C10 mutant: dm_ctx->ds_lock is not tested
dm_lock_datastore_untested(ds, ctx, lf, dsl, denied) ==
    LET r == dm_lock_datastore_loop(1, ds, ctx, lf, {}, denied, SR_ERR_OK)
    IN  [rc |-> r.rc, lf |-> r.lf, ctx |-> r.ctx, ds_lock |-> r.held, holds |-> r.held,
         touched |-> TRUE]

\* dm_lock_datastore; `touched` tells whether the call got past the ds_lock test
dm_lock_datastore(ds, ctx, lf, dsl, denied) ==
    IF dsl
    THEN [rc |-> SR_ERR_LOCKED, lf |-> lf, ctx |-> ctx, ds_lock |-> dsl, holds |-> FALSE,
          touched |-> FALSE]
    ELSE LET r == dm_lock_datastore_loop(1, ds, ctx, lf, {}, denied, SR_ERR_OK)
         IN  [rc |-> r.rc, lf |-> r.lf, ctx |-> r.ctx, ds_lock |-> r.held,
              holds |-> r.held, touched |-> TRUE]

\* C9 mutant: only the datastore lock is given back
dm_unlock_datastore_ds_only(ctx, lf, holds, dsl) ==
    [lf |-> lf, ctx |-> ctx, ds_lock |-> IF holds THEN FALSE ELSE dsl]

dm_unlock_datastore(ctx, lf, holds, dsl) ==
    [lf |-> {}, ctx |-> ctx \ lf, ds_lock |-> IF holds THEN FALSE ELSE dsl]

\* --------------------------------------------------------- data files
InitialValue == <<"init", 0>>
NoModules == [m \in {} |-> {}]

\* session_modules with the data info of module m replaced or inserted
Insert(infos, m, info) ==
    [x \in DOMAIN infos \cup {m} |-> IF x = m THEN info ELSE infos[x]]

Remove(infos, ms) == [x \in DOMAIN infos \ ms |-> infos[x]]

sr_get_data_file_name(m, ds) == <<m, ds>>

\* sr_lock_fd(fd, write): the advisory lock of the open data file.  A commit in
\* progress holds the write lock of every file it opened, until it closes them.
fd_write_locked(key) == c_ctx.phase # "none" /\ key \in c_ctx.fds

\* dm_load_data_tree_file: st_mtim becomes the timestamp, lyd_parse_fd gives the
\* tree; an empty file parses to the empty tree, a cut-off document does not parse
dm_load_data_tree_file(key) ==
    IF files[key].content = "absent"
    THEN [rc |-> SR_ERR_OK, info |-> [node |-> {}, timestamp |-> 0, modified |-> FALSE]]
    ELSE IF files[key].content = "partial"
    THEN [rc |-> SR_ERR_INTERNAL,
          info |-> [node |-> {}, timestamp |-> 0, modified |-> FALSE]]
    ELSE [rc |-> SR_ERR_OK,
          info |-> [node |-> IF files[key].content = "empty" THEN {} ELSE files[key].tree,
                    timestamp |-> files[key].mtime, modified |-> FALSE]]

dm_load_data_tree(m, ds) == dm_load_data_tree_file(sr_get_data_file_name(m, ds))

\* C1 mutant: the data info is looked up in every session's working set
dm_get_data_info_shared(s, m) ==
    LET have == {t \in sessions : m \in DOMAIN session_modules[t]}
    IN  IF have # {}
        THEN [rc |-> SR_ERR_OK, info |-> session_modules[CHOOSE t \in have : TRUE][m],
              loaded |-> FALSE]
        ELSE LET r == dm_load_data_tree(m, datastore[s])
             IN  [rc |-> r.rc, info |-> r.info, loaded |-> r.rc = SR_ERR_OK]

\* C2 mutant: the data file is read again on every access
dm_get_data_info_reload(s, m) ==
    LET r == dm_load_data_tree(m, datastore[s])
    IN  [rc |-> r.rc, info |-> r.info, loaded |-> r.rc = SR_ERR_OK]

\* dm_get_data_info: the session's copy if it has one, else the file is loaded
\* and (by the caller, with `loaded`) inserted into session_modules
dm_get_data_info(s, m) ==
    IF m \in DOMAIN session_modules[s]
    THEN [rc |-> SR_ERR_OK, info |-> session_modules[s][m], loaded |-> FALSE]
    ELSE LET r == dm_load_data_tree(m, datastore[s])
         IN  [rc |-> r.rc, info |-> r.info, loaded |-> r.rc = SR_ERR_OK]

\* C24 mutant: the copy is fresh whenever its timestamp is the file's mtime
dm_is_info_copy_uptodate_mtime_only(timestamp, mtime, lct, recent) ==
    ~ (\/ timestamp # mtime
       \/ timestamp = 0)

\* dm_is_info_copy_uptodate: timestamp of the copy, mtime of the file,
\* last_commit_time, and whether now is within NANOSEC_THRESHOLD of the mtime
dm_is_info_copy_uptodate(timestamp, mtime, lct, recent) ==
    ~ (\/ timestamp # mtime
       \/ recent
       \/ timestamp <= lct
       \/ timestamp = 0)

\* Points in time as struct timespec, with the seconds and the nanoseconds the
\* comparisons of dm_is_info_copy_uptodate tell apart
Timespecs == [tv_sec : {1, 2}, tv_nsec : {0, 1000000, 20000000, 995000000}]

\* a is earlier than b
Before(a, b) == a.tv_sec < b.tv_sec \/ (a.tv_sec = b.tv_sec /\ a.tv_nsec < b.tv_nsec)

\* the nanoseconds from a to b
Nanoseconds(a, b) == (b.tv_sec - a.tv_sec) * 1000000000 + (b.tv_nsec - a.tv_nsec)

\* dm_is_info_copy_uptodate on the times themselves: the timestamp of the copy,
\* st_mtim of the file, the current time and last_commit_time.  The difference
\* to the current time is looked at only when mtime and current time are in the
\* same second.
dm_is_info_copy_uptodate_at(timestamp, st_mtim, now, lct) ==
    ~ (\/ timestamp.tv_sec # st_mtim.tv_sec
       \/ timestamp.tv_nsec # st_mtim.tv_nsec
       \/ (now.tv_sec = st_mtim.tv_sec /\ now.tv_nsec - st_mtim.tv_nsec < NANOSEC_THRESHOLD)
       \/ timestamp.tv_sec < lct.tv_sec
       \/ (timestamp.tv_sec = lct.tv_sec /\ timestamp.tv_nsec <= lct.tv_nsec)
       \/ timestamp.tv_nsec = 0)

\* the check of one copy at a commit: the timestamp is an mtime the file had,
\* the file was not modified after the current time, and the last commit was
\* not after it
is_info_copy_uptodate(timestamp, st_mtim, now, lct) ==
    /\ ~ Before(st_mtim, timestamp)
    /\ ~ Before(now, st_mtim)
    /\ ~ Before(now, lct)
    /\ last_req' = Op("dm_is_info_copy_uptodate", "",
                      [timestamp |-> timestamp, st_mtim |-> st_mtim, now |-> now, lct |-> lct],
                      dm_is_info_copy_uptodate_at(timestamp, st_mtim, now, lct))
    /\ UNCHANGED <<ly_ctx, md_ctx, disabled_sch, features, pm_features>>
    /\ UNCHANGED <<dmvars, rpvars, schemavars, opervars, ctxvars>>

\* the modified modules of a working set, in the order of the schema list
ModifiedModules(infos) ==
    SelectSeq(Modules, LAMBDA m : m \in DOMAIN infos /\ infos[m].modified)

Range(seq) == {seq[i] : i \in 1..Len(seq)}

\* the leaf a value is the value of: the third component of the value where
\* the edits name their leaf, else the one leaf "leaf" of the module
Leaves == {"x", "y"}
Leaf(v) == IF Len(v) >= 3 THEN v[3] ELSE "leaf"

\* the tree after a leaf was set to the value v: the leaf has one value
rp_dt_set_item(tree, v) == {x \in tree : Leaf(x) # Leaf(v)} \cup {v}

\* the tree of module m after the operations of the log were applied to `tree`
RECURSIVE rp_dt_replay_operations(_, _, _)
rp_dt_replay_operations(ops, m, tree) ==
    IF ops = <<>> THEN tree
    ELSE rp_dt_replay_operations(Tail(ops), m,
                                 IF Head(ops).module = m
                                 THEN rp_dt_set_item(tree, Head(ops).value) ELSE tree)

\* ---------------------------------------------- enablement in running
\* The schema of a module whose data the candidate sessions edit: the container
\* c with the leaves x and y, and the leaf t.  A data node is named by its
\* schema node; a data tree is the set of its nodes, the children of a node in
\* schema order.
SchemaNodes == {"c", "x", "y", "t"}
TopLevel == <<"c", "t">>
Children == [n \in SchemaNodes |-> IF n = "c" THEN <<"x", "y">> ELSE <<>>]
Parents(n) == {p \in SchemaNodes : \E i \in 1..Len(Children[p]) : Children[p][i] = n}

\* (LYS_CONTAINER | LYS_LIST) & nodetype
IsInner(n) == Children[n] # <<>>

RECURSIVE Ancestors(_)
Ancestors(n) == Parents(n) \cup UNION {Ancestors(p) : p \in Parents(n)}

DM_NODE_DISABLED == "DM_NODE_DISABLED"
DM_NODE_ENABLED == "DM_NODE_ENABLED"
DM_NODE_ENABLED_WITH_CHILDREN == "DM_NODE_ENABLED_WITH_CHILDREN"
NodeStates == {DM_NODE_DISABLED, DM_NODE_ENABLED, DM_NODE_ENABLED_WITH_CHILDREN}

dm_is_node_enabled(st, n) ==
    st[n] = DM_NODE_ENABLED \/ st[n] = DM_NODE_ENABLED_WITH_CHILDREN

dm_is_node_enabled_with_children(st, n) == st[n] = DM_NODE_ENABLED_WITH_CHILDREN

\* dm_is_enabled_check_recursively: the node is enabled, or an ancestor is
\* enabled with its children
dm_is_enabled_check_recursively(st, n) ==
    \/ dm_is_node_enabled(st, n)
    \/ \E p \in Ancestors(n) : dm_is_node_enabled_with_children(st, p)

\* rp_dt_enable_xpath: the node of the xpath is enabled with its children, the
\* nodes above it that are not enabled yet are enabled
rp_dt_enable_xpath(st, n) ==
    [x \in SchemaNodes |->
        IF x = n THEN DM_NODE_ENABLED_WITH_CHILDREN
        ELSE IF x \in Ancestors(n) /\ ~ dm_is_node_enabled(st, x) THEN DM_NODE_ENABLED
        ELSE st[x]]

\* dm_enable_module_running: rp_dt_enable_xpath for every top-level node
RECURSIVE dm_enable_module_running(_, _)
dm_enable_module_running(st, tops) ==
    IF tops = <<>> THEN st
    ELSE dm_enable_module_running(rp_dt_enable_xpath(st, Head(tops)), Tail(tops))

\* the second loop of dm_disable_module_running: the node on top of the stack
\* is disabled and taken off, its enabled children are put on
RECURSIVE dm_disable_stack(_, _)
dm_disable_stack(st, stack) ==
    IF stack = <<>> THEN st
    ELSE LET n == stack[Len(stack)]
         IN  dm_disable_stack([st EXCEPT ![n] = DM_NODE_DISABLED],
                 SubSeq(stack, 1, Len(stack) - 1)
                 \o SelectSeq(Children[n], LAMBDA ch : dm_is_node_enabled(st, ch)))

\* dm_disable_module_running: the enabled top-level nodes are disabled, then
\* their enabled children by way of the stack
dm_disable_module_running(st) ==
    LET tops == SelectSeq(TopLevel, LAMBDA n : dm_is_node_enabled(st, n))
        RECURSIVE pushed(_)
        pushed(ns) == IF ns = <<>> THEN <<>>
                      ELSE SelectSeq(Children[Head(ns)],
                                     LAMBDA ch : dm_is_node_enabled(st, ch))
                           \o pushed(Tail(ns))
    IN  IF tops = <<>> THEN st
        ELSE dm_disable_stack([n \in SchemaNodes |->
                                  IF n \in Range(tops) THEN DM_NODE_DISABLED ELSE st[n]],
                              pushed(tops))

\* the children of data node n in the tree
DataChildren(tree, n) == SelectSeq(Children[n], LAMBDA ch : ch \in tree)

\* the while loop of dm_has_not_enabled_nodes over the stack: the node on top is
\* looked at but never taken off, so once it is enabled and puts no child on the
\* stack the loop goes round on it for ever
RECURSIVE dm_has_not_enabled_stack(_, _, _)
dm_has_not_enabled_stack(st, tree, stack) ==
    IF stack = <<>> THEN [returns |-> TRUE, res |-> FALSE]
    ELSE LET n == stack[Len(stack)]
         IN  IF ~ dm_is_node_enabled(st, n) THEN [returns |-> TRUE, res |-> TRUE]
             ELSE IF /\ ~ dm_is_node_enabled_with_children(st, n)
                     /\ IsInner(n)
                     /\ DataChildren(tree, n) # <<>>
             THEN dm_has_not_enabled_stack(st, tree, stack \o DataChildren(tree, n))
             ELSE [returns |-> FALSE, res |-> FALSE]

\* the loop of dm_has_not_enabled_nodes over the top-level nodes: a node that is
\* not enabled ends the function with res = true; the children of an enabled
\* container that is not enabled with its children are put on the stack
RECURSIVE dm_has_not_enabled_top(_, _, _, _)
dm_has_not_enabled_top(st, tree, tops, stack) ==
    IF tops = <<>> THEN dm_has_not_enabled_stack(st, tree, stack)
    ELSE LET n == Head(tops)
         IN  IF ~ dm_is_node_enabled(st, n) THEN [returns |-> TRUE, res |-> TRUE]
             ELSE dm_has_not_enabled_top(st, tree, Tail(tops),
                      IF ~ dm_is_node_enabled_with_children(st, n) /\ IsInner(n)
                      THEN stack \o DataChildren(tree, n) ELSE stack)

\* dm_has_not_enabled_nodes: `returns` tells whether the call returns at all
dm_has_not_enabled_nodes(st, tree) ==
    dm_has_not_enabled_top(st, tree, SelectSeq(TopLevel, LAMBDA n : n \in tree), <<>>)

\* the data nodes of the subtree of n
Subtree(tree, n) == {x \in tree : x = n \/ n \in Ancestors(x)}

\* the while loop of dm_remove_not_enabled_nodes over the stack: as in
\* dm_has_not_enabled_nodes the node on top is never taken off.  A node that is
\* not enabled is unlinked and freed and then read again from the stack, which
\* is a read of freed memory.
RECURSIVE dm_remove_not_enabled_stack(_, _, _)
dm_remove_not_enabled_stack(st, tree, stack) ==
    IF stack = <<>> THEN [outcome |-> "returns", tree |-> tree]
    ELSE LET n == stack[Len(stack)]
         IN  IF ~ dm_is_node_enabled(st, n)
             THEN [outcome |-> "undefined", tree |-> tree \ Subtree(tree, n)]
             ELSE IF /\ ~ dm_is_node_enabled_with_children(st, n)
                     /\ IsInner(n)
                     /\ DataChildren(tree, n) # <<>>
             THEN dm_remove_not_enabled_stack(st, tree, stack \o DataChildren(tree, n))
             ELSE [outcome |-> "hangs", tree |-> tree]

\* the loop of dm_remove_not_enabled_nodes over the top-level nodes: a node that
\* is not enabled is unlinked and freed; the enabled children of an enabled
\* container that is not enabled with its children are put on the stack
RECURSIVE dm_remove_not_enabled_top(_, _, _, _)
dm_remove_not_enabled_top(st, tree, tops, stack) ==
    IF tops = <<>> THEN dm_remove_not_enabled_stack(st, tree, stack)
    ELSE LET n == Head(tops)
         IN  IF ~ dm_is_node_enabled(st, n)
             THEN dm_remove_not_enabled_top(st, tree \ Subtree(tree, n), Tail(tops), stack)
             ELSE dm_remove_not_enabled_top(st, tree, Tail(tops),
                      IF ~ dm_is_node_enabled_with_children(st, n) /\ IsInner(n)
                      THEN stack \o SelectSeq(DataChildren(tree, n),
                                              LAMBDA ch : dm_is_node_enabled(st, ch))
                      ELSE stack)

dm_remove_not_enabled_nodes(st, tree) ==
    dm_remove_not_enabled_top(st, tree, SelectSeq(TopLevel, LAMBDA n : n \in tree), <<>>)

\* ----------------------------------------------------------- sessions
NoCommit ==
    [phase |-> "none", session |-> "", ds |-> SR_DS_STARTUP, modified |-> <<>>, fds |-> {},
     trees |-> NoModules, prev |-> NoModules, rc |-> SR_ERR_OK]

NoNotifications == [subs |-> <<>>, pending |-> {}]

\* no commit request has been answered yet
NoAnswer == [s |-> "", rc |-> SR_ERR_OK]

\* the session is not waiting for the answer to its own commit request
Idle(s) == s \in sessions /\ ~ (c_ctx.phase # "none" /\ c_ctx.session = s)

\* rp_req_dispatch takes commit_lock shared for GET_ITEM, GET_ITEMS, SET_ITEM,
\* DELETE_ITEM, MOVE_ITEM and SESSION_REFRESH, and exclusively for COMMIT
commit_lock_free == c_ctx.phase = "none"

dm_session_start(s, ds) ==
    /\ s \notin sessions
    /\ sessions' = sessions \cup {s}
    /\ datastore' = [datastore EXCEPT ![s] = ds]
    /\ session_modules' = [session_modules EXCEPT ![s] = NoModules]
    /\ operations' = [operations EXCEPT ![s] = <<>>]
    /\ UNCHANGED <<lockvars, filevars, commitvars, edits, histvars>>
    /\ UNCHANGED <<rpvars, schemavars, opervars, ctxvars, regvars>>

dm_session_stop(s) ==
    /\ Idle(s)
    /\ LET u == dm_unlock_datastore(locking_ctx, locked_files[s], holds_ds_lock[s], ds_lock)
       IN  /\ locked_files' = [locked_files EXCEPT ![s] = u.lf]
           /\ locking_ctx' = u.ctx
           /\ ds_lock' = u.ds_lock
           /\ holds_ds_lock' = [holds_ds_lock EXCEPT ![s] = FALSE]
    /\ sessions' = sessions \ {s}
    /\ session_modules' = [session_modules EXCEPT ![s] = NoModules]
    /\ operations' = [operations EXCEPT ![s] = <<>>]
    /\ ended_holding' = [ended_holding EXCEPT ![s] = locked_files[s]]
    /\ UNCHANGED <<datastore, filevars, commitvars, edits, last_lock, last_commit>>
    /\ UNCHANGED <<rpvars, schemavars, opervars, ctxvars, regvars>>

lock_module(s, m, denied) ==
    /\ Idle(s)
    /\ LET key == sr_get_lock_data_file_name(m, datastore[s])
           r == dm_lock_module(locking_ctx, locked_files[s], key,
                               LockFiles(denied, datastore[s]))
       IN  /\ locked_files' = [locked_files EXCEPT ![s] = r.lf]
           /\ locking_ctx' = r.ctx
           /\ last_lock' = Op("lock_module", s, m, r.rc)
    /\ UNCHANGED <<holds_ds_lock, ds_lock, sessvars, datavars, filevars, commitvars,
                   ended_holding, last_commit>>
    /\ UNCHANGED <<rpvars, schemavars, opervars, ctxvars, regvars>>

unlock_module(s, m) ==
    /\ Idle(s)
    /\ LET key == sr_get_lock_data_file_name(m, datastore[s])
           r == dm_unlock_module(locking_ctx, locked_files[s], key)
       IN  /\ locked_files' = [locked_files EXCEPT ![s] = r.lf]
           /\ locking_ctx' = r.ctx
           /\ last_lock' = Op("unlock_module", s, m, r.rc)
    /\ UNCHANGED <<holds_ds_lock, ds_lock, sessvars, datavars, filevars, commitvars,
                   ended_holding, last_commit>>
    /\ UNCHANGED <<rpvars, schemavars, opervars, ctxvars, regvars>>

lock_datastore(s, denied) ==
    /\ Idle(s)
    /\ LET r == dm_lock_datastore(datastore[s], locking_ctx, locked_files[s], ds_lock,
                                  LockFiles(denied, datastore[s]))
       IN  /\ locked_files' = [locked_files EXCEPT ![s] = r.lf]
           /\ locking_ctx' = r.ctx
           /\ ds_lock' = r.ds_lock
           /\ holds_ds_lock' = [holds_ds_lock EXCEPT
                                   ![s] = IF r.touched THEN r.holds ELSE @]
           /\ last_lock' = Op("lock_datastore", s, "", r.rc)
    /\ UNCHANGED <<sessvars, datavars, filevars, commitvars, ended_holding, last_commit>>
    /\ UNCHANGED <<rpvars, schemavars, opervars, ctxvars, regvars>>

unlock_datastore(s) ==
    /\ Idle(s)
    /\ LET u == dm_unlock_datastore(locking_ctx, locked_files[s], holds_ds_lock[s], ds_lock)
       IN  /\ locked_files' = [locked_files EXCEPT ![s] = u.lf]
           /\ locking_ctx' = u.ctx
           /\ ds_lock' = u.ds_lock
           /\ holds_ds_lock' = [holds_ds_lock EXCEPT ![s] = FALSE]
    /\ last_lock' = Op("unlock_datastore", s, "", SR_ERR_OK)
    /\ UNCHANGED <<sessvars, datavars, filevars, commitvars, ended_holding, last_commit>>
    /\ UNCHANGED <<rpvars, schemavars, opervars, ctxvars, regvars>>

\* C11 mutant: no data tree counts as modified
dm_is_model_modified_never(s, m) == FALSE

\* dm_is_model_modified: the modified flag of the session's copy of the module,
\* false if the session has no copy
dm_is_model_modified(s, m) ==
    m \in DOMAIN session_modules[s] /\ session_modules[s][m].modified

\* msg->request->lock_req->module_name of a datastore lock request
NoModule == ""

\* rp_dt_lock: with a module name the module is locked, without one the
\* datastore; a modified data tree of the session makes the request fail
\* before any lock is asked for
rp_dt_lock(s, m, denied) ==
    LET ds == datastore[s]
        same == [lf |-> locked_files[s], ctx |-> locking_ctx, ds_lock |-> ds_lock,
                 holds |-> holds_ds_lock[s]]
    IN  IF m # NoModule
        THEN IF dm_is_model_modified(s, m)
             THEN [rc |-> SR_ERR_OPERATION_FAILED] @@ same
             ELSE LET r == dm_lock_module(locking_ctx, locked_files[s],
                                          sr_get_lock_data_file_name(m, ds), denied)
                  IN  [rc |-> r.rc, lf |-> r.lf, ctx |-> r.ctx] @@ same
        ELSE IF \E x \in ModuleNames : dm_is_model_modified(s, x)
             THEN [rc |-> SR_ERR_OPERATION_FAILED] @@ same
             ELSE LET r == dm_lock_datastore(ds, locking_ctx, locked_files[s], ds_lock,
                                             denied)
                  IN  [rc |-> r.rc, lf |-> r.lf, ctx |-> r.ctx, ds_lock |-> r.ds_lock,
                       holds |-> IF r.touched THEN r.holds ELSE holds_ds_lock[s]]

\* LOCK: rp_lock_req_process answers with the result of rp_dt_lock
lock(s, m, denied) ==
    /\ Idle(s)
    /\ LET r == rp_dt_lock(s, m, LockFiles(denied, datastore[s]))
       IN  /\ locked_files' = [locked_files EXCEPT ![s] = r.lf]
           /\ locking_ctx' = r.ctx
           /\ ds_lock' = r.ds_lock
           /\ holds_ds_lock' = [holds_ds_lock EXCEPT ![s] = r.holds]
           /\ last_lock' = Op("lock", s, m, r.rc)
    /\ UNCHANGED <<sessvars, datavars, filevars, commitvars, ended_holding, last_commit>>
    /\ UNCHANGED <<rpvars, schemavars, opervars, ctxvars, regvars>>

\* ------------------------------------------------------ reads and edits
\* rp_dt_get_value_wrapper: the value of the leaf in the tree dm_get_datatree
\* gives the session, SR_ERR_NOT_FOUND if that tree is empty
rp_dt_get_value_wrapper(s, m) ==
    LET r == dm_get_data_info(s, m)
    IN  IF r.rc # SR_ERR_OK THEN [rc |-> r.rc, value |-> {}]
        ELSE IF r.info.node = {} THEN [rc |-> SR_ERR_NOT_FOUND, value |-> {}]
        ELSE [rc |-> SR_ERR_OK, value |-> r.info.node]

\* the state data a data provider gave for a module, set in the session's tree
StateValue == <<"state", 0>>

\* C19 mutant: the trees that hold state data are emptied
rp_dt_remove_loaded_state_data_all(infos) ==
    [m \in DOMAIN infos |->
        [infos[m] EXCEPT !.node = IF StateValue \in @ THEN {} ELSE @]]

\* rp_dt_remove_loaded_state_data: rp_dt_delete_item of every subtree in the
\* session's loaded_state_data, which is then empty.  The list holds the state
\* data subtrees of the module whose providers were asked, so the trees have
\* state data of listed subtrees only and the list is not kept apart.
rp_dt_remove_loaded_state_data(infos) ==
    [m \in DOMAIN infos |-> [infos[m] EXCEPT !.node = @ \ {StateValue}]]

\* GET_ITEM of a running session for a module with state data, the provider's
\* answer included: rp_dt_prepare_data removes the state data loaded before,
\* gets the module's tree and marks its state data as loaded, and
\* rp_data_provide_resp_process sets the provider's value in the session's tree
\* with rp_dt_set_item, which marks the copy modified and logs no operation
get_item_state_data(s, m) ==
    /\ Idle(s)
    /\ commit_lock_free
    /\ datastore[s] = SR_DS_RUNNING
    /\ LET r == dm_get_data_info(s, m)
           infos == rp_dt_remove_loaded_state_data(session_modules[s])
           info == IF r.loaded THEN r.info ELSE infos[m]
       IN  session_modules' = [session_modules EXCEPT
              ![s] = IF r.rc = SR_ERR_OK
                     THEN Insert(infos, m, [info EXCEPT !.node = @ \cup {StateValue},
                                                        !.modified = TRUE])
                     ELSE infos]
    /\ UNCHANGED <<lockvars, sessvars, operations, edits, filevars, commitvars, histvars>>
    /\ UNCHANGED <<rpvars, schemavars, opervars, ctxvars, regvars>>

\* dm_validate_session_data_trees: lyd_validate of every modified tree that is
\* not empty; `invalid` are the modules whose tree lyd_validate rejects
dm_validate_session_data_trees(infos, invalid) ==
    LET failing == {m \in DOMAIN infos :
                      infos[m].modified /\ infos[m].node # {} /\ m \in invalid}
    IN  [rc |-> IF failing # {} THEN SR_ERR_VALIDATION_FAILED ELSE SR_ERR_OK,
         err_cnt |-> Cardinality(failing)]

\* VALIDATE: rp_validate_req_process removes the loaded state data and answers
\* with the result of dm_validate_session_data_trees; rp_req_dispatch takes no
\* lock for it
validate(s, invalid) ==
    /\ Idle(s)
    /\ LET infos == rp_dt_remove_loaded_state_data(session_modules[s])
       IN  /\ session_modules' = [session_modules EXCEPT ![s] = infos]
           /\ last_lock' = Op("validate", s, "",
                              dm_validate_session_data_trees(infos, invalid).rc)
    /\ UNCHANGED <<lockvars, sessvars, operations, edits, filevars, commitvars,
                   ended_holding, last_commit>>
    /\ UNCHANGED <<rpvars, schemavars, opervars, ctxvars, regvars>>

\* GET_ITEM: dm_get_data_info keeps the tree it had to load in the session
get_item(s, m) ==
    /\ Idle(s)
    /\ commit_lock_free
    /\ LET r == dm_get_data_info(s, m)
       IN  /\ session_modules' = [session_modules EXCEPT
                 ![s] = IF r.loaded THEN Insert(@, m, r.info) ELSE @]
    /\ UNCHANGED <<lockvars, sessvars, operations, edits, filevars, commitvars, histvars>>
    /\ UNCHANGED <<rpvars, schemavars, opervars, ctxvars, regvars>>

\* SET_ITEM: rp_dt_set_item_wrapper logs the operation (dm_add_operation), sets
\* the leaf in dm_get_data_info's tree and marks the data info modified
set_item(s, m) ==
    /\ Idle(s)
    /\ commit_lock_free
    /\ edits < MaxEdits
    /\ LET r == dm_get_data_info(s, m)
           v == <<s, edits + 1>>
       IN  IF r.rc = SR_ERR_OK
           THEN /\ session_modules' = [session_modules EXCEPT
                      ![s] = Insert(@, m, [r.info EXCEPT !.node = {v} \cup (@ \cap {StateValue}),
                                                         !.modified = TRUE])]
                /\ operations' = [operations EXCEPT
                      ![s] = Append(@, [module |-> m, value |-> v])]
           ELSE UNCHANGED <<session_modules, operations>>
    /\ edits' = edits + 1
    /\ UNCHANGED <<lockvars, sessvars, filevars, commitvars, histvars>>
    /\ UNCHANGED <<rpvars, schemavars, opervars, ctxvars, regvars>>

\* SET_ITEM of one of several leaves of the module: the other leaves of the
\* session's tree keep their values
set_item_leaf(s, m, leaf) ==
    /\ Idle(s)
    /\ commit_lock_free
    /\ edits < MaxEdits
    /\ LET r == dm_get_data_info(s, m)
           v == <<s, edits + 1, leaf>>
       IN  IF r.rc = SR_ERR_OK
           THEN /\ session_modules' = [session_modules EXCEPT
                      ![s] = Insert(@, m, [r.info EXCEPT !.node = rp_dt_set_item(@, v),
                                                         !.modified = TRUE])]
                /\ operations' = [operations EXCEPT
                      ![s] = Append(@, [module |-> m, value |-> v])]
           ELSE UNCHANGED <<session_modules, operations>>
    /\ edits' = edits + 1
    /\ UNCHANGED <<lockvars, sessvars, filevars, commitvars, histvars>>
    /\ UNCHANGED <<rpvars, schemavars, opervars, ctxvars, regvars>>

\* C20 mutant: the operations are freed and the copies are kept
dm_discard_changes_keep(infos, ops) ==
    [session_modules |-> infos, operations |-> <<>>]

\* dm_discard_changes: sr_btree_cleanup frees every data info of the session's
\* datastore, dm_free_sess_operations the operations, oper_count becomes 0
dm_discard_changes(infos, ops) ==
    [session_modules |-> NoModules, operations |-> <<>>]

\* DISCARD_CHANGES: rp_discard_changes_req_process answers with the result of
\* dm_discard_changes; rp_req_dispatch takes no lock for it
discard_changes(s) ==
    /\ Idle(s)
    /\ LET d == dm_discard_changes(session_modules[s], operations[s])
       IN  /\ session_modules' = [session_modules EXCEPT ![s] = d.session_modules]
           /\ operations' = [operations EXCEPT ![s] = d.operations]
    /\ UNCHANGED <<lockvars, sessvars, edits, filevars, commitvars, histvars>>
    /\ UNCHANGED <<rpvars, schemavars, opervars, ctxvars, regvars>>

\* dm_update_session_data_trees: the copies that are not up to date are deleted;
\* up_to_date names the modified modules whose copy is up to date
dm_update_session_data_trees(s, recent) ==
    LET infos == session_modules[s]
        fresh == {m \in DOMAIN infos :
                    dm_is_info_copy_uptodate(infos[m].timestamp,
                        files[sr_get_data_file_name(m, datastore[s])].mtime,
                        last_commit_time, recent)}
    IN  [infos |-> Remove(infos, DOMAIN infos \ fresh),
         up_to_date |-> {m \in fresh : infos[m].modified}]

\* SESSION_REFRESH: rp_dt_refresh_session drops the stale copies and replays the
\* operations on the reloaded trees; an operation that fails is removed
refresh(s, recent) ==
    /\ Idle(s)
    /\ commit_lock_free
    /\ LET u == dm_update_session_data_trees(s, recent)
           todo == {op.module : op \in Range(operations[s])} \ u.up_to_date
           load(m) == dm_load_data_tree(m, datastore[s])
           bad == {m \in todo : m \notin DOMAIN u.infos /\ load(m).rc # SR_ERR_OK}
           base(m) == IF m \in DOMAIN u.infos THEN u.infos[m] ELSE load(m).info
       IN  /\ session_modules' = [session_modules EXCEPT
                 ![s] = [m \in DOMAIN u.infos \cup (todo \ bad) |->
                           IF m \in todo
                           THEN [base(m) EXCEPT
                                   !.node = rp_dt_replay_operations(operations[s], m, @),
                                   !.modified = TRUE]
                           ELSE u.infos[m]]]
           /\ operations' = [operations EXCEPT
                 ![s] = SelectSeq(@, LAMBDA op : op.module \notin bad)]
    /\ UNCHANGED <<lockvars, sessvars, edits, filevars, commitvars, histvars>>
    /\ UNCHANGED <<rpvars, schemavars, opervars, ctxvars, regvars>>

\* ------------------------------------------------- replay with retries
\* the operations of the log from the i-th down to the first: one whose
\* has_error is set is freed and the operations after it are moved down
RECURSIVE dm_remove_operations_loop(_, _, _)
dm_remove_operations_loop(ops, has_error, i) ==
    IF i < 1 THEN ops
    ELSE dm_remove_operations_loop(
            IF i \in has_error
            THEN SubSeq(ops, 1, i - 1) \o SubSeq(ops, i + 1, Len(ops))
            ELSE ops,
            has_error, i - 1)

\* C38 mutant: the operations with an error stay in the log
dm_remove_operations_with_error_none(ops, has_error) == ops

\* dm_remove_operations_with_error; has_error are the positions of the
\* operations whose has_error is set
dm_remove_operations_with_error(ops, has_error) ==
    dm_remove_operations_loop(ops, has_error, Len(ops))

\* a replay needs no more rounds than this: every round but the last removes
\* an operation
MaxRounds == MaxEdits + 1

\* the rounds of a replay: the operations at errs[round] fail in this round and
\* get has_error, they are removed and the rest is replayed again, until a
\* round in which no operation fails
RECURSIVE rp_dt_replay_rounds(_, _, _)
rp_dt_replay_rounds(ops, errs, round) ==
    LET has_error == errs[round] \cap (1..Len(ops))
    IN  IF has_error = {} THEN [ops |-> ops, rounds |-> round, ended |-> TRUE]
        ELSE IF round = MaxRounds THEN [ops |-> ops, rounds |-> round, ended |-> FALSE]
        ELSE rp_dt_replay_rounds(dm_remove_operations_with_error(ops, has_error),
                                 errs, round + 1)

\* the operations that fail in the rounds of a replay: any of them in the first
\* round, and in a later round the first of those that are left
ReplayErrors ==
    {[round \in 1..MaxRounds |-> IF round = 1 THEN first
                                 ELSE IF round \in later THEN {1} ELSE {}] :
        first \in SUBSET (1..MaxEdits), later \in SUBSET (2..MaxRounds)}

\* the replay of the log of session s on the trees of the data files, and the
\* validation of the trees it gives
replay(s, errs, invalid) ==
    /\ Idle(s)
    /\ commit_lock_free
    /\ operations[s] # <<>>
    /\ LET r == rp_dt_replay_rounds(operations[s], errs, 1)
           mods == {op.module : op \in Range(operations[s])}
           load(m) == dm_load_data_tree(m, datastore[s])
           infos == [m \in DOMAIN session_modules[s] \cup mods |->
                       IF m \in mods
                       THEN [load(m).info EXCEPT
                               !.node = rp_dt_replay_operations(r.ops, m, @),
                               !.modified = TRUE]
                       ELSE session_modules[s][m]]
       IN  /\ session_modules' = [session_modules EXCEPT ![s] = infos]
           /\ operations' = [operations EXCEPT ![s] = r.ops]
           /\ last_req' = Op("replay", s, <<operations[s], r.rounds, r.ended>>,
                             dm_validate_session_data_trees(infos, invalid).rc)
    /\ UNCHANGED <<lockvars, sessvars, edits, filevars, commitvars, histvars>>
    /\ UNCHANGED <<ly_ctx, md_ctx, disabled_sch, features, pm_features>>
    /\ UNCHANGED <<rpvars, schemavars, opervars, ctxvars>>

\* -------------------------------------------------------------- commit
\* the module-change subscriptions np_get_module_change_subscriptions returns
Subscriptions ==
    {[id |-> "verifier", module |-> "m1", priority |-> 0, verifier |-> TRUE],
     [id |-> "notifier", module |-> "m1", priority |-> 10, verifier |-> FALSE],
     [id |-> "listener", module |-> "m2", priority |-> 5, verifier |-> FALSE]}

SubscriptionIds == {sub.id : sub \in Subscriptions}

\* dm_subs_cmp: a subscription of higher priority sorts first
dm_subs_cmp(a, b) ==
    IF b.priority = a.priority THEN 0 ELSE IF b.priority > a.priority THEN 1 ELSE 0 - 1

\* qsort(ms->subscriptions, ..., dm_subs_cmp)
RECURSIVE qsort(_)
qsort(subs) ==
    IF subs = {} THEN <<>>
    ELSE LET first == CHOOSE a \in subs : \A b \in subs : dm_subs_cmp(a, b) <= 0
         IN  <<first>> \o qsort(subs \ {first})

dm_prepare_module_subscriptions(m) == qsort({sub \in Subscriptions : sub.module = m})

\* C13 mutant: a module another session has locked is committed all the same
dm_commit_lock_model_forced(ctx, clf, slf, key) ==
    [rc |-> SR_ERR_OK, ctx |-> ctx \cup {key}, clf |-> clf \cup {key}, slf |-> slf]

\* dm_commit_lock_model for a commit of startup or running: the commit session
\* locks the module; if that returns LOCKED the session that issued the commit
\* is tried, which succeeds if it holds the lock itself
dm_commit_lock_model(ctx, clf, slf, key) ==
    LET r == dm_lock_module(ctx, clf, key, {})
    IN  IF r.rc = SR_ERR_LOCKED
        THEN LET q == dm_lock_module(ctx, slf, key, {})
             IN  [rc |-> q.rc, ctx |-> q.ctx, clf |-> clf, slf |-> q.lf]
        ELSE [rc |-> r.rc, ctx |-> r.ctx, clf |-> r.lf, slf |-> slf]

\* the first loop of dm_commit_load_modified_models
RECURSIVE dm_commit_lock_models(_, _, _, _, _)
dm_commit_lock_models(mods, ds, ctx, clf, slf) ==
    IF mods = <<>>
    THEN [rc |-> SR_ERR_OK, ctx |-> ctx, clf |-> clf, slf |-> slf]
    ELSE LET r == dm_commit_lock_model(ctx, clf, slf,
                                       sr_get_lock_data_file_name(Head(mods), ds))
         IN  IF r.rc # SR_ERR_OK THEN r
             ELSE dm_commit_lock_models(Tail(mods), ds, r.ctx, r.clf, r.slf)

\* the second loop of dm_commit_load_modified_models, for one module: the tree
\* of the commit session (the session's own if its copy is up to date, else the
\* file's, on which the operations are then replayed) and the previous tree
dm_commit_load_model(s, m, recent) ==
    LET key == sr_get_data_file_name(m, datastore[s])
        info == session_modules[s][m]
        copy_uptodate == dm_is_info_copy_uptodate(info.timestamp, files[key].mtime,
                                                  last_commit_time, recent)
        file == dm_load_data_tree_file(key)
        need_file == ~copy_uptodate \/ datastore[s] # SR_DS_STARTUP
    IN  [rc |-> IF need_file THEN file.rc ELSE SR_ERR_OK,
         tree |-> IF copy_uptodate THEN info.node
                  ELSE rp_dt_replay_operations(operations[s], m, file.info.node),
         prev |-> file.info.node]

WriteOutcomes == {"ok", "ftruncate", "print_empty", "print_partial", "fsync"}

\* C3 mutant: the file is synced without having been printed
dm_commit_write_file_unprinted(file, tree, outcome, now) ==
    IF outcome = "ftruncate" THEN file
    ELSE [content |-> "empty", tree |-> {}, mtime |-> now]

\* dm_commit_write_files, for one file: ftruncate, lyd_print_fd, fsync; the call
\* named by `outcome` fails
dm_commit_write_file(file, tree, outcome, now) ==
    IF outcome = "ftruncate" THEN file
    ELSE IF outcome = "print_empty" THEN [content |-> "empty", tree |-> {}, mtime |-> now]
    ELSE IF outcome = "print_partial" THEN [content |-> "partial", tree |-> {}, mtime |-> now]
    ELSE [content |-> "complete", tree |-> tree, mtime |-> now]

\* C18 mutant: the loop ends at the first module whose file is not written
dm_commit_write_files_stops(fs, mods, ds, trees, outcome, now) ==
    LET failing == {i \in 1..Len(mods) : outcome[mods[i]] # "ok"}
        last == IF failing = {} THEN Len(mods)
                ELSE CHOOSE i \in failing : \A j \in failing : i <= j
        reached == {sr_get_data_file_name(mods[i], ds) : i \in 1..last}
    IN  [files |-> [key \in DOMAIN fs |->
                      IF key \in reached
                      THEN dm_commit_write_file(fs[key], trees[key[1]], outcome[key[1]], now)
                      ELSE fs[key]],
         rc |-> IF failing # {} THEN SR_ERR_INTERNAL ELSE SR_ERR_OK]

\* dm_commit_write_files: the loop over the modified modules of the session; a
\* failed ftruncate, lyd_print_fd or fsync sets rc to SR_ERR_INTERNAL and the
\* loop goes on with the next module; rc is never set back
dm_commit_write_files(fs, mods, ds, trees, outcome, now) ==
    LET failing == {i \in 1..Len(mods) : outcome[mods[i]] # "ok"}
        reached == {sr_get_data_file_name(mods[i], ds) : i \in 1..Len(mods)}
    IN  [files |-> [key \in DOMAIN fs |->
                      IF key \in reached
                      THEN dm_commit_write_file(fs[key], trees[key[1]], outcome[key[1]], now)
                      ELSE fs[key]],
         rc |-> IF failing # {} THEN SR_ERR_INTERNAL ELSE SR_ERR_OK]

\* COMMIT, first part (rp_dt_commit): dm_commit_prepare_context,
\* dm_commit_load_modified_models, rp_dt_replay_operations and validation.
\* A commit that fails here frees its context, which stops the commit session.
commit_begin(s, recent) ==
    /\ Idle(s)
    /\ commit_lock_free
    /\ LET mods == ModifiedModules(session_modules[s])
           ds == datastore[s]
           l == dm_commit_lock_models(mods, ds, locking_ctx, locked_files[CommitSession],
                                      locked_files[s])
           load(m) == dm_commit_load_model(s, m, recent)
           failed == {m \in Range(mods) : load(m).rc # SR_ERR_OK}
       IN  IF mods = <<>> \/ operations[s] = <<>>
           THEN /\ last_commit' = [s |-> s, rc |-> SR_ERR_OK]
                /\ UNCHANGED <<lockvars, commitvars>>
           ELSE IF l.rc # SR_ERR_OK \/ failed # {}
           THEN /\ locked_files' = [locked_files EXCEPT ![s] = l.slf]
                /\ locking_ctx' = l.ctx \ l.clf
                /\ last_commit' = [s |-> s,
                                   rc |-> IF l.rc # SR_ERR_OK THEN l.rc
                                          ELSE load(CHOOSE m \in failed : TRUE).rc]
                /\ UNCHANGED <<holds_ds_lock, ds_lock, commitvars>>
           ELSE /\ c_ctx' = [phase |-> "write", session |-> s, ds |-> ds, modified |-> mods,
                             fds |-> {sr_get_data_file_name(m, ds) : m \in Range(mods)},
                             trees |-> [m \in Range(mods) |-> load(m).tree],
                             prev |-> [m \in Range(mods) |-> load(m).prev],
                             rc |-> SR_ERR_OK]
                /\ np_notified' = NoNotifications
                /\ locked_files' = [locked_files EXCEPT ![s] = l.slf,
                                                         ![CommitSession] = l.clf]
                /\ locking_ctx' = l.ctx
                /\ UNCHANGED <<holds_ds_lock, ds_lock, last_commit>>
    /\ UNCHANGED <<sessvars, datavars, filevars, ended_holding, last_lock>>
    /\ UNCHANGED <<rpvars, schemavars, opervars, ctxvars, regvars>>

\* COMMIT of a session whose replayed trees lyd_validate rejects (`invalid`):
\* rp_commit_req_process removes the loaded state data, rp_dt_commit locks and
\* loads the modified modules as in commit_begin, the validation of the commit
\* session's trees fails, and the commit context is freed: nothing is written
commit_invalid(s, recent, invalid) ==
    /\ Idle(s)
    /\ commit_lock_free
    /\ LET infos == rp_dt_remove_loaded_state_data(session_modules[s])
           mods == ModifiedModules(infos)
           ds == datastore[s]
           l == dm_commit_lock_models(mods, ds, locking_ctx, locked_files[CommitSession],
                                      locked_files[s])
           load(m) == dm_commit_load_model(s, m, recent)
           trees == [m \in Range(mods) |->
                       [node |-> load(m).tree \ {StateValue}, modified |-> TRUE]]
       IN  /\ mods # <<>>
           /\ operations[s] # <<>>
           /\ l.rc = SR_ERR_OK
           /\ \A m \in Range(mods) : load(m).rc = SR_ERR_OK
           /\ dm_validate_session_data_trees(trees, invalid).rc = SR_ERR_VALIDATION_FAILED
           /\ session_modules' = [session_modules EXCEPT ![s] = infos]
           /\ locked_files' = [locked_files EXCEPT ![s] = l.slf]
           /\ locking_ctx' = l.ctx \ l.clf
           /\ last_commit' = [s |-> s, rc |-> SR_ERR_VALIDATION_FAILED]
    /\ UNCHANGED <<holds_ds_lock, ds_lock, sessvars, operations, edits, filevars, commitvars,
                   ended_holding, last_lock>>
    /\ UNCHANGED <<rpvars, schemavars, opervars, ctxvars, regvars>>

\* the second loop of dm_commit_load_modified_models up to sr_lock_fd, module by
\* module: open(O_RDWR) fails with EACCES for the modules in `unauthorized`; a
\* file that does not exist is created empty with O_CREAT; sr_lock_fd fails for
\* the modules in `fd_locked`.  The loop is left at the first failure.
RECURSIVE dm_commit_open_files(_, _, _, _, _, _)
dm_commit_open_files(fs, mods, ds, unauthorized, fd_locked, now) ==
    IF mods = <<>> THEN [rc |-> SR_ERR_OK, files |-> fs]
    ELSE LET m == Head(mods)
             key == sr_get_data_file_name(m, ds)
             opened == IF fs[key].content = "absent"
                       THEN [fs EXCEPT ![key] = [content |-> "empty", tree |-> {},
                                                 mtime |-> now]]
                       ELSE fs
         IN  IF m \in unauthorized THEN [rc |-> SR_ERR_UNAUTHORIZED, files |-> fs]
             ELSE IF m \in fd_locked THEN [rc |-> SR_ERR_OPERATION_FAILED, files |-> opened]
             ELSE dm_commit_open_files(opened, Tail(mods), ds, unauthorized, fd_locked, now)

\* COMMIT that fails in dm_commit_load_modified_models: a module lock is not
\* to be had, or a data file cannot be opened or locked; the commit context is
\* freed, which releases the locks of the commit session
commit_open_fail(s, unauthorized, fd_locked) ==
    /\ Idle(s)
    /\ commit_lock_free
    /\ LET mods == ModifiedModules(session_modules[s])
           ds == datastore[s]
           l == dm_commit_lock_models(mods, ds, locking_ctx, locked_files[CommitSession],
                                      locked_files[s])
           o == dm_commit_open_files(files, mods, ds, unauthorized, fd_locked, clock)
       IN  /\ mods # <<>>
           /\ operations[s] # <<>>
           /\ l.rc # SR_ERR_OK \/ o.rc # SR_ERR_OK
           /\ locked_files' = [locked_files EXCEPT ![s] = l.slf]
           /\ locking_ctx' = l.ctx \ l.clf
           /\ files' = IF l.rc # SR_ERR_OK THEN files ELSE o.files
           /\ clock' = IF l.rc # SR_ERR_OK \/ o.files = files THEN clock ELSE clock + 1
           /\ last_commit' = [s |-> s, rc |-> IF l.rc # SR_ERR_OK THEN l.rc ELSE o.rc]
    /\ UNCHANGED <<holds_ds_lock, ds_lock, sessvars, datavars, last_commit_time, faults,
                   persisted, committed, commitvars, ended_holding, last_lock>>
    /\ UNCHANGED <<rpvars, schemavars, opervars, ctxvars, regvars>>

\* COMMIT, second part: dm_commit_write_files writes every modified module's
\* file, goes on after a failure, and sets last_commit_time.  `now` is the
\* time the file system stamps the files with.
commit_write_at(outcome, now) ==
    /\ c_ctx.phase = "write"
    /\ Cardinality({m \in DOMAIN outcome : outcome[m] # "ok"}) <= MaxFaults - faults
    /\ LET ds == c_ctx.ds
           mod(key) == key[1]
           w == dm_commit_write_files(files, c_ctx.modified, ds, c_ctx.trees, outcome, now)
           new(key) == w.files[key]
       IN  /\ files' = w.files
           /\ c_ctx' = [c_ctx EXCEPT !.phase = "notify", !.rc = w.rc]
           /\ persisted' = persisted \cup
                 UNION {new(key).tree : key \in {k \in c_ctx.fds : outcome[mod(k)] # "ftruncate"}}
           /\ committed' = [key \in Keys |-> IF key \in c_ctx.fds THEN {} ELSE committed[key]]
    /\ faults' = faults + Cardinality({m \in DOMAIN outcome : outcome[m] # "ok"})
    /\ last_commit_time' = clock + 1
    /\ clock' = clock + 2
    /\ UNCHANGED <<lockvars, sessvars, datavars, np_notified, histvars>>
    /\ UNCHANGED <<rpvars, schemavars, opervars, ctxvars, regvars>>

\* the file system's time advances with every write
commit_write(outcome) == commit_write_at(outcome, clock)

\* the file system's time is coarser than the clock: a file written in the tick
\* of its last modification keeps its mtime
commit_write_coarse(outcome) ==
    \E now \in {clock} \cup {files[key].mtime : key \in c_ctx.fds} :
        commit_write_at(outcome, now)

\* dm_commit_notify: nothing for startup; else every subscription of a module
\* whose tree changed is notified, in the order of the sorted list
RECURSIVE dm_commit_notify(_, _, _)
dm_commit_notify(ds, mods, c) ==
    IF ds = SR_DS_STARTUP \/ mods = <<>> THEN <<>>
    ELSE (IF c.prev[Head(mods)] # c.trees[Head(mods)]
          THEN dm_prepare_module_subscriptions(Head(mods)) ELSE <<>>)
         \o dm_commit_notify(ds, Tail(mods), c)

\* COMMIT, last part: after a successful write dm_commit_notify (which saves the
\* commit context: the files are closed, the commit session's locks released)
\* and dm_discard_changes of the session; after a failed one
\* dm_free_commit_context
commit_finish ==
    /\ c_ctx.phase = "notify"
    /\ LET s == c_ctx.session
           notified == dm_commit_notify(c_ctx.ds, c_ctx.modified, c_ctx)
           u == dm_unlock_datastore(locking_ctx, locked_files[CommitSession],
                                    holds_ds_lock[CommitSession], ds_lock)
       IN  /\ locked_files' = [locked_files EXCEPT ![CommitSession] = u.lf]
           /\ locking_ctx' = u.ctx
           /\ ds_lock' = u.ds_lock
           /\ IF c_ctx.rc = SR_ERR_OK
              THEN /\ np_notified' =
                         [subs |-> [i \in 1..Len(notified) |-> notified[i].id],
                          pending |-> {notified[i].id : i \in 1..Len(notified)}]
                   /\ session_modules' = [session_modules EXCEPT ![s] = NoModules]
                   /\ operations' = [operations EXCEPT ![s] = <<>>]
                   /\ committed' = [key \in Keys |->
                         IF key \in c_ctx.fds
                         THEN rp_dt_replay_operations(operations[s], key[1], {})
                         ELSE committed[key]]
              ELSE UNCHANGED <<np_notified, session_modules, operations, committed>>
    /\ last_commit' = [s |-> c_ctx.session, rc |-> c_ctx.rc]
    /\ c_ctx' = NoCommit
    /\ UNCHANGED <<holds_ds_lock, sessvars, edits, files, last_commit_time, clock, faults,
                   persisted, ended_holding, last_lock>>
    /\ UNCHANGED <<rpvars, schemavars, opervars, ctxvars, regvars>>

\* a notified subscriber answers: rp_notification_ack_process only logs the
\* result, whatever it is, and passes the acknowledgment on to the notification
\* processor; the last acknowledgment releases the saved commit context
notification_ack(id, result) ==
    /\ id \in np_notified.pending
    /\ result \in {SR_ERR_OK, SR_ERR_OPERATION_FAILED}
    /\ np_notified' = IF np_notified.pending = {id} THEN NoNotifications
                      ELSE [np_notified EXCEPT !.pending = @ \ {id}]
    /\ UNCHANGED <<lockvars, sessvars, datavars, filevars, c_ctx, histvars>>
    /\ UNCHANGED <<rpvars, schemavars, opervars, ctxvars, regvars>>

\* ------------------------------------------------------------ candidate
\* the module whose schema is SchemaNodes
SchemaModule == Modules[1]

\* subscriptions to the module or to one of its subtrees enable it in running
enable_module_running ==
    /\ node_state' = dm_enable_module_running(node_state, TopLevel)
    /\ UNCHANGED <<dmvars, rpvars, hung, opervars, ctxvars, regvars>>

enable_module_subtree_running(n) ==
    /\ node_state' = rp_dt_enable_xpath(node_state, n)
    /\ UNCHANGED <<dmvars, rpvars, hung, opervars, ctxvars, regvars>>

disable_module_running ==
    /\ node_state' = dm_disable_module_running(node_state)
    /\ UNCHANGED <<dmvars, rpvars, hung, opervars, ctxvars, regvars>>

\* dm_get_data_info of a candidate session: the session's copy if it has one,
\* else the running file is loaded and dm_remove_not_enabled_nodes prunes it
dm_get_data_info_candidate(s, m) ==
    IF m \in DOMAIN session_modules[s]
    THEN [rc |-> SR_ERR_OK, info |-> session_modules[s][m], loaded |-> FALSE,
          outcome |-> "returns"]
    ELSE LET r == dm_load_data_tree(m, SR_DS_RUNNING)
             p == dm_remove_not_enabled_nodes(node_state, r.info.node)
         IN  IF r.rc # SR_ERR_OK
             THEN [rc |-> r.rc, info |-> r.info, loaded |-> FALSE, outcome |-> "returns"]
             ELSE [rc |-> SR_ERR_OK, info |-> [r.info EXCEPT !.node = p.tree],
                   loaded |-> TRUE, outcome |-> p.outcome]

\* SET_ITEM in a candidate session: the node n and the nodes above it are
\* created in the candidate tree.  `undefined` is what the request does once it
\* has read freed memory: it goes on, or it never returns.
candidate_set_item(s, n, undefined) ==
    /\ Idle(s)
    /\ s \notin hung
    /\ commit_lock_free
    /\ datastore[s] = SR_DS_CANDIDATE
    /\ edits < MaxEdits
    /\ LET m == SchemaModule
           r == dm_get_data_info_candidate(s, m)
           outcome == IF r.outcome = "undefined" THEN undefined ELSE r.outcome
       IN  IF outcome = "hangs"
           THEN /\ hung' = hung \cup {s}
                /\ UNCHANGED <<session_modules, operations>>
           ELSE /\ hung' = hung
                /\ IF r.rc = SR_ERR_OK
                   THEN /\ session_modules' = [session_modules EXCEPT
                              ![s] = Insert(@, m, [r.info EXCEPT
                                            !.node = @ \cup {n} \cup Ancestors(n),
                                            !.modified = TRUE])]
                        /\ operations' = [operations EXCEPT
                              ![s] = Append(@, [module |-> m, value |-> n])]
                   ELSE UNCHANGED <<session_modules, operations>>
    /\ edits' = edits + 1
    /\ UNCHANGED <<lockvars, sessvars, filevars, commitvars, histvars, rpvars, node_state,
                   opervars, ctxvars, regvars>>

\* dm_commit_lock_model for a commit of candidate: the candidate lock of the
\* module, then its running lock
dm_commit_lock_model_candidate(ctx, clf, slf, m) ==
    LET a == dm_commit_lock_model(ctx, clf, slf,
                                  sr_get_lock_data_file_name(m, SR_DS_CANDIDATE))
    IN  IF a.rc # SR_ERR_OK THEN a
        ELSE dm_commit_lock_model(a.ctx, a.clf, a.slf,
                                  sr_get_lock_data_file_name(m, SR_DS_RUNNING))

\* the first loop of dm_commit_load_modified_models for a commit of candidate:
\* each modified module is locked and its tree checked for nodes that are not
\* enabled
RECURSIVE dm_commit_lock_models_candidate(_, _, _, _, _)
dm_commit_lock_models_candidate(s, mods, ctx, clf, slf) ==
    IF mods = <<>>
    THEN [rc |-> SR_ERR_OK, ctx |-> ctx, clf |-> clf, slf |-> slf, returns |-> TRUE]
    ELSE LET l == dm_commit_lock_model_candidate(ctx, clf, slf, Head(mods))
             h == dm_has_not_enabled_nodes(node_state, session_modules[s][Head(mods)].node)
             locked == [ctx |-> l.ctx, clf |-> l.clf, slf |-> l.slf]
         IN  IF l.rc # SR_ERR_OK THEN l @@ [returns |-> TRUE]
             ELSE IF ~ h.returns THEN [rc |-> SR_ERR_OK, returns |-> FALSE] @@ locked
             ELSE IF h.res THEN [rc |-> SR_ERR_OPERATION_FAILED, returns |-> TRUE] @@ locked
             ELSE dm_commit_lock_models_candidate(s, Tail(mods), l.ctx, l.clf, l.slf)

\* COMMIT in a candidate session.  dm_commit_load_modified_models locks and
\* checks the modified modules; the trees of the session are then written to
\* the running files as they are, the subscribers notified and the changes of
\* the session discarded.  A check that does not return leaves the commit in
\* dm_commit_load_modified_models, with commit_lock and the module locks held.
candidate_commit(s) ==
    /\ Idle(s)
    /\ hung = {}
    /\ commit_lock_free
    /\ datastore[s] = SR_DS_CANDIDATE
    /\ LET mods == ModifiedModules(session_modules[s])
           l == dm_commit_lock_models_candidate(s, mods, locking_ctx,
                    locked_files[CommitSession], locked_files[s])
           fds == {sr_get_data_file_name(m, SR_DS_RUNNING) : m \in Range(mods)}
           tree(key) == session_modules[s][key[1]].node
           new(key) == dm_commit_write_file(files[key], tree(key), "ok", clock)
           c == [trees |-> [m \in Range(mods) |-> session_modules[s][m].node],
                 prev |-> [m \in Range(mods) |-> dm_load_data_tree(m, SR_DS_RUNNING).info.node]]
           notified == dm_commit_notify(SR_DS_RUNNING, mods, c)
       IN  IF mods = <<>>
           THEN /\ last_commit' = [s |-> s, rc |-> SR_ERR_OK]
                /\ UNCHANGED <<lockvars, datavars, filevars, commitvars, hung>>
           ELSE IF ~ l.returns
           THEN /\ hung' = hung \cup {s}
                /\ c_ctx' = [NoCommit EXCEPT !.phase = "load", !.session = s,
                                             !.ds = SR_DS_RUNNING, !.modified = mods]
                /\ locked_files' = [locked_files EXCEPT ![s] = l.slf,
                                                         ![CommitSession] = l.clf]
                /\ locking_ctx' = l.ctx
                /\ UNCHANGED <<holds_ds_lock, ds_lock, datavars, filevars, np_notified,
                               last_commit>>
           ELSE IF l.rc # SR_ERR_OK
           THEN /\ locked_files' = [locked_files EXCEPT ![s] = l.slf]
                /\ locking_ctx' = l.ctx \ l.clf
                /\ last_commit' = [s |-> s, rc |-> l.rc]
                /\ UNCHANGED <<holds_ds_lock, ds_lock, datavars, filevars, commitvars, hung>>
           ELSE /\ locked_files' = [locked_files EXCEPT ![s] = l.slf]
                /\ locking_ctx' = l.ctx \ l.clf
                /\ files' = [key \in Keys |-> IF key \in fds THEN new(key) ELSE files[key]]
                /\ persisted' = persisted \cup UNION {tree(key) : key \in fds}
                /\ committed' = [key \in Keys |->
                                    IF key \in fds THEN tree(key) ELSE committed[key]]
                /\ last_commit_time' = clock + 1
                /\ clock' = clock + 2
                /\ np_notified' =
                      [subs |-> [i \in 1..Len(notified) |-> notified[i].id],
                       pending |-> {notified[i].id : i \in 1..Len(notified)}]
                /\ session_modules' = [session_modules EXCEPT ![s] = NoModules]
                /\ operations' = [operations EXCEPT ![s] = <<>>]
                /\ last_commit' = [s |-> s, rc |-> SR_ERR_OK]
                /\ UNCHANGED <<holds_ds_lock, ds_lock, edits, faults, c_ctx, hung>>
    /\ UNCHANGED <<sessvars, ended_holding, last_lock, rpvars, node_state, opervars, ctxvars, regvars>>

\* ----------------------------------------------------- operational data
\* the operational-data subscriptions rp_dt_xpath_requests_state_data finds
Providers == {"p1", "p2"}
ReadIds == 1..MaxReads

\* a worker thread that is in no handler
NoHandler == [at |-> "idle", session |-> "", id |-> NoMsg]

\* a client sends GET_ITEM: rp_msg_process puts the request in the queue
client_get_item(s) ==
    /\ reads < MaxReads
    /\ reads' = reads + 1
    /\ oper_queue' = Append(oper_queue, [session |-> s, id |-> reads + 1])
    /\ UNCHANGED <<rp_state, cur_req, dp_req_waiting, timers, dp_requests, suspended,
                   answered, freed, mutexvars>>
    /\ UNCHANGED <<dmvars, rpvars, schemavars, ctxvars, regvars>>

\* rp_dt_prepare_data: in RP_REQ_NEW the providers are asked, `asked` being the
\* subscriptions np_data_provider_request succeeds for, and the session waits
\* if any request is outstanding; in RP_REQ_DATA_LOADED the data is there
rp_dt_prepare_data(state, waiting, asked) ==
    IF state = RP_REQ_NEW
    THEN [rc |-> SR_ERR_OK, dp_req_waiting |-> waiting + Cardinality(asked),
          state |-> IF waiting + Cardinality(asked) > 0 THEN RP_REQ_WAITING_FOR_DATA
                    ELSE state]
    ELSE IF state = RP_REQ_DATA_LOADED
    THEN [rc |-> SR_ERR_OK, dp_req_waiting |-> waiting, state |-> state]
    ELSE [rc |-> SR_ERR_INTERNAL, dp_req_waiting |-> waiting, state |-> state]

\* the session state in rp_dt_get_value_wrapper: it returns at once while the
\* session waits, and else ends in RP_REQ_FINISHED
rp_dt_get_value_wrapper_state(state, waiting, asked) ==
    LET p == rp_dt_prepare_data(state, waiting, asked)
    IN  IF p.rc = SR_ERR_OK /\ p.state = RP_REQ_WAITING_FOR_DATA THEN p
        ELSE [p EXCEPT !.state = RP_REQ_FINISHED]

\* rp_get_item_req_process of the read `id`: a session found waiting for this
\* read goes to RP_REQ_DATA_LOADED; a session found waiting for another read
\* frees that one and starts anew.  A read that has to wait is kept in
\* session->req and its timeout is set; else the response is sent.
rp_get_item_req_process(s, id, asked) ==
    LET other == rp_state[s] = RP_REQ_WAITING_FOR_DATA /\ id # cur_req[s]
        entry == IF rp_state[s] = RP_REQ_FINISHED THEN RP_REQ_NEW
                 ELSE IF rp_state[s] = RP_REQ_WAITING_FOR_DATA
                 THEN IF id = cur_req[s] THEN RP_REQ_DATA_LOADED ELSE RP_REQ_NEW
                 ELSE rp_state[s]
        dropped == IF other THEN {cur_req[s]} \ {NoMsg} ELSE {}
        w == rp_dt_get_value_wrapper_state(entry, dp_req_waiting[s], asked)
    IN  /\ rp_state' = [rp_state EXCEPT ![s] = w.state]
        /\ dp_req_waiting' = [dp_req_waiting EXCEPT ![s] = w.dp_req_waiting]
        /\ IF w.state = RP_REQ_WAITING_FOR_DATA
           THEN /\ cur_req' = [cur_req EXCEPT ![s] = id]
                /\ timers' = timers \cup {[session |-> s, request_id |-> id]}
                /\ dp_requests' = dp_requests \cup
                      {[session |-> s, request_id |-> id, provider |-> p] : p \in asked}
                /\ suspended' = suspended \cup {id}
                /\ freed' = freed \cup dropped
                /\ UNCHANGED answered
           ELSE /\ cur_req' = [cur_req EXCEPT ![s] = NoMsg]
                /\ answered' = answered \cup {id}
                /\ freed' = freed \cup dropped \cup {id}
                /\ UNCHANGED <<timers, dp_requests, suspended>>

\* a worker thread dispatches the read at the head of the queue.  A message that
\* was freed while it was in the queue is read all the same: `undefined` is what
\* comes of that, the message is processed as the read it was or it is dropped.
dispatch_get_item(asked, undefined) ==
    /\ oper_queue # <<>>
    /\ LET msg == Head(oper_queue)
       IN  /\ dp_req_waiting[msg.session] + Cardinality(asked)
                 <= MaxReads * Cardinality(Providers)
           /\ IF msg.id \in freed /\ undefined = "dropped"
              THEN UNCHANGED <<rp_state, cur_req, dp_req_waiting, timers, dp_requests,
                               suspended, answered, freed>>
              ELSE /\ msg.id \in freed \/ undefined = "processed"
                   /\ rp_get_item_req_process(msg.session, msg.id, asked)
    /\ oper_queue' = Tail(oper_queue)
    /\ UNCHANGED <<reads, mutexvars>>
    /\ UNCHANGED <<dmvars, rpvars, schemavars, ctxvars, regvars>>

\* C28 mutant: the response of a data provider is taken and not counted
data_provide_resp_uncounted(r) ==
    /\ r \in dp_requests
    /\ dp_requests' = dp_requests \ {r}
    /\ UNCHANGED <<rp_state, dp_req_waiting, oper_queue>>
    /\ UNCHANGED <<cur_req, timers, reads, suspended, answered, freed, mutexvars>>
    /\ UNCHANGED <<dmvars, rpvars, schemavars, ctxvars, regvars>>

\* rp_data_provide_resp_process: the response of a data provider is counted if
\* the session still waits for the read it belongs to; the last one makes the
\* session RP_REQ_DATA_LOADED and passes the read to rp_msg_process again
data_provide_resp(r) ==
    /\ r \in dp_requests
    /\ dp_requests' = dp_requests \ {r}
    /\ LET s == r.session
       IN  IF \/ rp_state[s] # RP_REQ_WAITING_FOR_DATA
              \/ cur_req[s] = NoMsg
              \/ r.request_id # cur_req[s]
           THEN UNCHANGED <<rp_state, dp_req_waiting, oper_queue>>
           ELSE /\ dp_req_waiting' = [dp_req_waiting EXCEPT ![s] = @ - 1]
                /\ IF dp_req_waiting[s] - 1 = 0
                   THEN /\ rp_state' = [rp_state EXCEPT ![s] = RP_REQ_DATA_LOADED]
                        /\ oper_queue' = Append(oper_queue,
                                                [session |-> s, id |-> cur_req[s]])
                   ELSE UNCHANGED <<rp_state, oper_queue>>
    /\ UNCHANGED <<cur_req, timers, reads, suspended, answered, freed, mutexvars>>
    /\ UNCHANGED <<dmvars, rpvars, schemavars, ctxvars, regvars>>

\* rp_oper_data_timeout_req_process: the timeout of the read the session keeps
\* passes that read to rp_msg_process again
oper_data_timeout(t) ==
    /\ t \in timers
    /\ timers' = timers \ {t}
    /\ IF cur_req[t.session] = t.request_id
       THEN oper_queue' = Append(oper_queue, [session |-> t.session, id |-> t.request_id])
       ELSE UNCHANGED oper_queue
    /\ UNCHANGED <<rp_state, cur_req, dp_req_waiting, dp_requests, reads, suspended,
                   answered, freed, mutexvars>>
    /\ UNCHANGED <<dmvars, rpvars, schemavars, ctxvars, regvars>>

\* The handlers once more, step by step, with session->cur_req_mutex.
\* A worker takes the read at the head of the queue and locks the mutex of its
\* session (MUTEX_LOCK_TIMED_CHECK_GOTO in rp_get_item_req_process).  A message
\* that was freed while it was in the queue is processed as the read it was, or
\* dropped.
get_item_lock(w, undefined) ==
    /\ handler[w] = NoHandler
    /\ oper_queue # <<>>
    /\ LET msg == Head(oper_queue)
       IN  IF msg.id \in freed /\ undefined = "dropped"
           THEN UNCHANGED mutexvars
           ELSE /\ msg.id \in freed \/ undefined = "processed"
                /\ cur_req_mutex[msg.session] = ""
                /\ cur_req_mutex' = [cur_req_mutex EXCEPT ![msg.session] = w]
                /\ handler' = [handler EXCEPT
                      ![w] = [at |-> "locked", session |-> msg.session, id |-> msg.id]]
                /\ UNCHANGED unprotected
    /\ oper_queue' = Tail(oper_queue)
    /\ UNCHANGED <<rp_state, cur_req, dp_req_waiting, timers, dp_requests, reads, suspended,
                   answered, freed>>
    /\ UNCHANGED <<dmvars, rpvars, schemavars, ctxvars, regvars>>

\* the timed lock gives up while another worker holds the mutex: the handler
\* goes to its cleanup label
get_item_lock_timeout(w) ==
    /\ handler[w] = NoHandler
    /\ oper_queue # <<>>
    /\ LET msg == Head(oper_queue)
       IN  /\ msg.id \notin freed
           /\ cur_req_mutex[msg.session] \notin {"", w}
           /\ handler' = [handler EXCEPT
                 ![w] = [at |-> "cleanup", session |-> msg.session, id |-> msg.id]]
    /\ oper_queue' = Tail(oper_queue)
    /\ UNCHANGED <<rp_state, cur_req, dp_req_waiting, timers, dp_requests, reads, suspended,
                   answered, freed, cur_req_mutex, unprotected>>
    /\ UNCHANGED <<dmvars, rpvars, schemavars, ctxvars, regvars>>

\* rp_get_item_req_process from the lock to the unlock: the state on entry, the
\* read stored in session->req, rp_dt_get_value_wrapper; a read that has to
\* wait sets its timeout and returns, else the handler goes on to its cleanup
get_item_locked(w, asked) ==
    /\ handler[w].at = "locked"
    /\ LET s == handler[w].session
           id == handler[w].id
           other == rp_state[s] = RP_REQ_WAITING_FOR_DATA /\ id # cur_req[s]
           entry == IF rp_state[s] = RP_REQ_FINISHED THEN RP_REQ_NEW
                    ELSE IF rp_state[s] = RP_REQ_WAITING_FOR_DATA
                    THEN IF id = cur_req[s] THEN RP_REQ_DATA_LOADED ELSE RP_REQ_NEW
                    ELSE rp_state[s]
           dropped == IF other THEN {cur_req[s]} \ {NoMsg} ELSE {}
           v == rp_dt_get_value_wrapper_state(entry, dp_req_waiting[s], asked)
       IN  /\ dp_req_waiting[s] + Cardinality(asked) <= MaxReads * Cardinality(Providers)
           /\ cur_req_mutex[s] = w
           /\ rp_state' = [rp_state EXCEPT ![s] = v.state]
           /\ dp_req_waiting' = [dp_req_waiting EXCEPT ![s] = v.dp_req_waiting]
           /\ cur_req' = [cur_req EXCEPT ![s] = id]
           /\ freed' = freed \cup dropped
           /\ cur_req_mutex' = [cur_req_mutex EXCEPT ![s] = ""]
           /\ IF v.state = RP_REQ_WAITING_FOR_DATA
              THEN /\ timers' = timers \cup {[session |-> s, request_id |-> id]}
                   /\ dp_requests' = dp_requests \cup
                         {[session |-> s, request_id |-> id, provider |-> p] : p \in asked}
                   /\ suspended' = suspended \cup {id}
                   /\ handler' = [handler EXCEPT ![w] = NoHandler]
              ELSE /\ handler' = [handler EXCEPT ![w].at = "cleanup"]
                   /\ UNCHANGED <<timers, dp_requests, suspended>>
    /\ UNCHANGED <<oper_queue, reads, answered, unprotected>>
    /\ UNCHANGED <<dmvars, rpvars, schemavars, ctxvars, regvars>>

\* the cleanup label of rp_get_item_req_process: session->req = NULL, after the
\* mutex was unlocked or was never locked; the response is sent and the
\* message freed
get_item_cleanup(w) ==
    /\ handler[w].at = "cleanup"
    /\ LET s == handler[w].session
       IN  /\ cur_req' = [cur_req EXCEPT ![s] = NoMsg]
           /\ unprotected' = unprotected \cup
                 (IF cur_req_mutex[s] = w THEN {}
                  ELSE {[session |-> s, access |-> "rp_get_item_req_process"]})
    /\ answered' = answered \cup {handler[w].id}
    /\ freed' = freed \cup {handler[w].id}
    /\ handler' = [handler EXCEPT ![w] = NoHandler]
    /\ UNCHANGED <<rp_state, dp_req_waiting, oper_queue, timers, dp_requests, reads,
                   suspended, cur_req_mutex>>
    /\ UNCHANGED <<dmvars, rpvars, schemavars, ctxvars, regvars>>

\* rp_data_provide_resp_process by a worker: all of it is between the lock
\* and the unlock of the mutex
data_provide_resp_locked(w, r) ==
    /\ handler[w] = NoHandler
    /\ cur_req_mutex[r.session] = ""
    /\ data_provide_resp(r)

\* rp_oper_data_timeout_req_process by a worker: session->req is compared and
\* passed to rp_msg_process, and the mutex is not locked
oper_data_timeout_process(w, t) ==
    /\ handler[w] = NoHandler
    /\ t \in timers
    /\ timers' = timers \ {t}
    /\ IF cur_req[t.session] = t.request_id
       THEN oper_queue' = Append(oper_queue, [session |-> t.session, id |-> t.request_id])
       ELSE UNCHANGED oper_queue
    /\ unprotected' = unprotected \cup
          (IF cur_req_mutex[t.session] = w THEN {}
           ELSE {[session |-> t.session, access |-> "rp_oper_data_timeout_req_process"]})
    /\ UNCHANGED <<rp_state, cur_req, dp_req_waiting, dp_requests, reads, suspended,
                   answered, freed, cur_req_mutex, handler>>
    /\ UNCHANGED <<dmvars, rpvars, schemavars, ctxvars, regvars>>

\* ------------------------------------------------------ copy_config
CopyDatastores == {SR_DS_STARTUP, SR_DS_RUNNING, SR_DS_CANDIDATE}

\* dm_get_data_info of session s, or of a new session (s = "") of datastore ds:
\* the session's copy if it has one, else the data file is loaded, for the
\* candidate datastore the file of running.  The modules copied here are
\* enabled with all their nodes, so nothing is pruned from a candidate tree.
dm_get_data_info_of(s, infos, ds, m) ==
    IF s # "" /\ m \in DOMAIN infos
    THEN [rc |-> SR_ERR_OK, info |-> infos[m], loaded |-> FALSE]
    ELSE LET r == dm_load_data_tree(m, IF ds = SR_DS_CANDIDATE THEN SR_DS_RUNNING ELSE ds)
         IN  [rc |-> r.rc, info |-> r.info, loaded |-> r.rc = SR_ERR_OK]

\* SET_ITEM in a session of the candidate datastore
set_item_candidate(s, m) ==
    /\ Idle(s)
    /\ commit_lock_free
    /\ datastore[s] = SR_DS_CANDIDATE
    /\ edits < MaxEdits
    /\ LET r == dm_get_data_info_of(s, session_modules[s], SR_DS_CANDIDATE, m)
           v == <<s, edits + 1>>
       IN  IF r.rc = SR_ERR_OK
           THEN /\ session_modules' = [session_modules EXCEPT
                      ![s] = Insert(@, m, [r.info EXCEPT !.node = {v}, !.modified = TRUE])]
                /\ operations' = [operations EXCEPT
                      ![s] = Append(@, [module |-> m, value |-> v])]
           ELSE UNCHANGED <<session_modules, operations>>
    /\ edits' = edits + 1
    /\ UNCHANGED <<lockvars, sessvars, filevars, commitvars, histvars>>
    /\ UNCHANGED <<rpvars, schemavars, opervars, ctxvars, regvars>>

\* C23 mutant target below: the tree the second loop of dm_copy_config gives
\* the candidate session for the i-th module: it is put into the data info of
\* `module`, which the first loop left pointing to the last module of the list
dm_copy_config_candidate_target(mods, i) == mods[Len(mods)]

\* dm_copy_config of the modules mods (a list without repetitions) from src to
\* dst for session s.  A source or destination that is not the candidate is
\* read or written by a session of its own, started and stopped here.
\* First loop, module by module: dm_lock_module in src and in dst (SR_ERR_LOCKED
\* if another session has the lock file), dm_get_data_info of the source, and
\* open of the destination file with O_TRUNC; open_fail is the module whose open
\* fails, after which the function leaves with the rc it had, SR_ERR_OK.
\* Second loop: lyd_print_fd (failing for print_fail) and fsync of every file,
\* or the copy of the source tree into the candidate session.
dm_copy_config(s, mods, src, dst, invalid, open_fail, print_fail, now) ==
    LET n == Len(mods)
        infos == session_modules[s]
        same == [rc |-> SR_ERR_OK, files |-> files, infos |-> infos,
                 operations |-> operations[s]]
        source(m) == dm_get_data_info_of(IF src = SR_DS_CANDIDATE THEN s ELSE "",
                                         infos, src, m)
        locked(m, ds) ==
            LET key == sr_get_lock_data_file_name(m, ds)
            IN  /\ ds # SR_DS_CANDIDATE
                /\ key \in locking_ctx
                /\ ~ (datastore[s] = ds /\ key \in locked_files[s])
        step(i) ==
            IF locked(mods[i], src) \/ locked(mods[i], dst) THEN SR_ERR_LOCKED
            ELSE IF source(mods[i]).rc # SR_ERR_OK THEN source(mods[i]).rc
            ELSE IF dst # SR_DS_CANDIDATE /\ i = open_fail THEN "open"
            ELSE SR_ERR_OK
        failing == {i \in 1..n : step(i) # SR_ERR_OK}
        k == IF failing = {} THEN n + 1 ELSE CHOOSE i \in failing : \A j \in failing : i <= j
        opened == IF dst = SR_DS_CANDIDATE THEN {}
                  ELSE {sr_get_data_file_name(mods[i], dst) : i \in 1..(k - 1)}
        loaded == IF src # SR_DS_CANDIDATE THEN {}
                  ELSE {mods[i] : i \in {j \in 1..n : j < k \/ (j = k /\ step(j) = "open")}}
        infos1 == [m \in DOMAIN infos \cup loaded |-> source(m).info]
        truncated == [key \in DOMAIN files |->
                        IF key \in opened
                        THEN [content |-> "empty", tree |-> {}, mtime |-> now]
                        ELSE files[key]]
        written == [key \in DOMAIN files |->
                      IF key \in opened
                      THEN dm_commit_write_file(truncated[key], source(key[1]).info.node,
                               IF key[1] \in print_fail THEN "print_partial" ELSE "ok", now)
                      ELSE files[key]]
        target(i) == dm_copy_config_candidate_target(mods, i)
        dest(m) == dm_get_data_info_of(s, infos1, SR_DS_CANDIDATE, m)
        copied(m) == {i \in 1..n : target(i) = m}
        last(m) == CHOOSE i \in copied(m) : \A j \in copied(m) : j <= i
        infos2 == [m \in DOMAIN infos1 \cup {target(i) : i \in 1..n} |->
                     IF copied(m) = {} THEN infos1[m]
                     ELSE [dest(m).info EXCEPT !.node = source(mods[last(m)]).info.node,
                                               !.modified = TRUE]]
    IN  IF src = dst \/ n = 0 THEN same
        ELSE IF src = SR_DS_CANDIDATE
                /\ dm_validate_session_data_trees(infos, invalid).rc # SR_ERR_OK
        THEN [same EXCEPT !.rc = SR_ERR_VALIDATION_FAILED]
        ELSE IF failing # {}
        THEN [rc |-> IF step(k) = "open" THEN SR_ERR_OK ELSE step(k),
              files |-> truncated, infos |-> infos1, operations |-> operations[s]]
        ELSE IF dst # SR_DS_CANDIDATE
        THEN [rc |-> IF \E m \in Range(mods) : m \in print_fail
                     THEN SR_ERR_INTERNAL ELSE SR_ERR_OK,
              files |-> written, infos |-> infos1, operations |-> operations[s]]
        ELSE IF \E i \in 1..n : dest(target(i)).rc # SR_ERR_OK
        THEN [rc |-> dest(target(1)).rc, files |-> files, infos |-> infos1,
              operations |-> operations[s]]
        ELSE [rc |-> SR_ERR_OK, files |-> files, infos |-> infos2, operations |-> <<>>]

\* the lists of modules a COPY_CONFIG request names: one module
\* (dm_copy_module) or all of them (dm_copy_all_models)
CopyLists == {<<Modules[i]>> : i \in 1..Len(Modules)} \cup {Modules}

\* COPY_CONFIG: rp_copy_config_req_process answers with the result of
\* dm_copy_config; a copy from or to the candidate is one of a candidate session
copy_config(s, mods, src, dst, invalid, open_fail, print_fail) ==
    /\ Idle(s)
    /\ commit_lock_free
    /\ clock < 2 + MaxCopies
    /\ (src = SR_DS_CANDIDATE \/ dst = SR_DS_CANDIDATE) => datastore[s] = SR_DS_CANDIDATE
    /\ LET r == dm_copy_config(s, mods, src, dst, invalid, open_fail, print_fail, clock)
       IN  /\ files' = r.files
           /\ session_modules' = [session_modules EXCEPT ![s] = r.infos]
           /\ operations' = [operations EXCEPT ![s] = r.operations]
           /\ last_req' = Op("copy_config", s, <<mods, src, dst>>, r.rc)
    /\ clock' = clock + 1
    /\ UNCHANGED <<lockvars, sessvars, edits, last_commit_time, faults, persisted, committed,
                   commitvars, histvars>>
    /\ UNCHANGED <<ly_ctx, md_ctx, disabled_sch, features, pm_features>>
    /\ UNCHANGED <<rpvars, schemavars, opervars, ctxvars>>

\* ------------------------------------------------------ schemas
\* the modules with a schema file: those of Modules are installed when the
\* process starts (dm_load_all_schemas), the last one is not
SchemaNames == ModuleNames \cup {"m3"}

\* the features the schemas define, and a name that no schema defines
Features == {"f1"}
FeatureNames == Features \cup {"fx"}

\* dm_ctx->conn_mode: a library-mode process loads a missing schema on demand
LocalMode == TRUE

dm_is_module_disabled(m) == m \in disabled_sch

\* dm_get_module: ly_ctx_get_module, and in local mode dm_load_module for a
\* module libyang has not loaded, which finds installed modules only.  The
\* disabled modules are not looked at.
dm_get_module(ly, m) ==
    IF m \in ly THEN [rc |-> SR_ERR_OK, ly |-> ly]
    ELSE IF LocalMode /\ m \in md_ctx THEN [rc |-> SR_ERR_OK, ly |-> ly \cup {m}]
    ELSE [rc |-> SR_ERR_UNKNOWN_MODEL, ly |-> ly]

\* dm_find_module_schema: dm_get_module, and SR_ERR_UNKNOWN_MODEL for a
\* disabled module
dm_find_module_schema(m) ==
    LET r == dm_get_module(ly_ctx, m)
    IN  [r EXCEPT !.rc = IF r.rc # SR_ERR_OK \/ dm_is_module_disabled(m)
                         THEN SR_ERR_UNKNOWN_MODEL ELSE SR_ERR_OK]

\* dm_install_module: refused for a disabled module; else ly_ctx_load_module
\* (`found`: libyang finds the schema file) and md_insert_module, whose
\* SR_ERR_INVAL_ARG for an installed module is not an error
dm_install_module(m, found) ==
    IF dm_is_module_disabled(m) THEN [rc |-> SR_ERR_INTERNAL, ly |-> ly_ctx, md |-> md_ctx]
    ELSE IF m \notin ly_ctx /\ ~ found
    THEN [rc |-> SR_ERR_NOT_FOUND, ly |-> ly_ctx, md |-> md_ctx]
    ELSE [rc |-> SR_ERR_OK, ly |-> ly_ctx \cup {m}, md |-> md_ctx \cup {m}]

\* dm_uninstall_module: a module of the dependency graph is added to
\* disabled_sch and removed from the graph; libyang keeps its schema
dm_uninstall_module(m) ==
    IF m \notin md_ctx
    THEN [rc |-> SR_ERR_NOT_FOUND, disabled |-> disabled_sch, md |-> md_ctx]
    ELSE [rc |-> SR_ERR_OK, disabled |-> disabled_sch \cup {m}, md |-> md_ctx \ {m}]

\* MODULE_INSTALL: rp_module_install_req_process
module_install(m, installed, found) ==
    /\ LET i == dm_install_module(m, found)
           u == dm_uninstall_module(m)
       IN  /\ ly_ctx' = IF installed THEN i.ly ELSE ly_ctx
           /\ md_ctx' = IF installed THEN i.md ELSE u.md
           /\ disabled_sch' = IF installed THEN disabled_sch ELSE u.disabled
           /\ last_req' = Op(IF installed THEN "install" ELSE "uninstall", "", m,
                             IF installed THEN i.rc ELSE u.rc)
    /\ UNCHANGED <<features, pm_features>>
    /\ UNCHANGED <<dmvars, rpvars, schemavars, opervars, ctxvars>>

\* GET_SCHEMA: dm_get_schema, SR_ERR_NOT_FOUND for a module dm_get_module does
\* not give
get_schema(m) ==
    /\ LET r == dm_get_module(ly_ctx, m)
       IN  /\ ly_ctx' = r.ly
           /\ last_req' = Op("get_schema", "", m,
                             IF r.rc # SR_ERR_OK THEN SR_ERR_NOT_FOUND ELSE SR_ERR_OK)
    /\ UNCHANGED <<md_ctx, disabled_sch, features, pm_features>>
    /\ UNCHANGED <<dmvars, rpvars, schemavars, opervars, ctxvars>>

\* lys_features_enable and lys_features_disable: 1 for a feature the module
\* does not define, which the callers read as SR_ERR_INVAL_ARG
lys_features_set(enabled, f, enable) ==
    IF f \notin Features THEN [rc |-> SR_ERR_INVAL_ARG, enabled |-> enabled]
    ELSE [rc |-> SR_ERR_OK, enabled |-> IF enable THEN enabled \cup {f} ELSE enabled \ {f}]

\* dm_feature_enable: dm_get_module and lys_features_enable or _disable
dm_feature_enable(ly, fs, m, f, enable) ==
    LET r == dm_get_module(ly, m)
        e == lys_features_set(fs[m], f, enable)
    IN  IF r.rc # SR_ERR_OK
        THEN [rc |-> SR_ERR_UNKNOWN_MODEL, ly |-> r.ly, features |-> fs]
        ELSE [rc |-> e.rc, ly |-> r.ly, features |-> [fs EXCEPT ![m] = e.enabled]]

\* FEATURE_ENABLE: rp_feature_enable_req_process; pm_rc is what
\* pm_save_feature_state returns; after a failure of it dm_feature_enable is
\* called with the opposite of the request
feature_enable(m, f, enable, pm_rc) ==
    /\ LET d == dm_feature_enable(ly_ctx, features, m, f, enable)
           back == dm_feature_enable(d.ly, d.features, m, f, ~ enable)
           oper_rc == IF d.rc = SR_ERR_OK THEN pm_rc ELSE d.rc
       IN  /\ ly_ctx' = d.ly
           /\ features' = IF d.rc = SR_ERR_OK /\ pm_rc # SR_ERR_OK
                          THEN back.features ELSE d.features
           /\ pm_features' = IF oper_rc = SR_ERR_OK
                             THEN [pm_features EXCEPT ![m] =
                                      IF enable THEN @ \cup {f} ELSE @ \ {f}]
                             ELSE pm_features
           /\ last_req' = Op(IF enable THEN "feature_enable" ELSE "feature_disable", f, m,
                             oper_rc)
    /\ UNCHANGED <<md_ctx, disabled_sch>>
    /\ UNCHANGED <<dmvars, rpvars, schemavars, opervars, ctxvars>>

\* ------------------------------------------------------ commit contexts
\* the values rand() gives
Ids == 0..MaxId

\* COMMIT holds commit_lock for writing, so one commit at a time is in
\* dm_commit_prepare_context: the context is allocated
commit_prepare_context ==
    /\ new_ctx = NoCtx
    /\ new_ctx' = [phase |-> "generate", id |-> DM_COMMIT_CTX_ID_INVALID, attempts |-> 0]
    /\ UNCHANGED <<commit_ctxs, removing, prepare_rc, np_commits>>
    /\ UNCHANGED <<dmvars, rpvars, schemavars, opervars, regvars>>

\* sr_btree_search(dm_ctx->commit_ctxs.tree, c_ctx) in dm_commit_prepare_context
\* is done without commit_ctxs.lock: while dm_remove_commit_context is changing
\* the tree the search races with it and may find the id or miss it
sr_btree_search(id) ==
    IF removing # DM_COMMIT_CTX_ID_INVALID THEN BOOLEAN ELSE {id \in commit_ctxs}

\* one round of the loop that generates the id: rand() gives r, an id found in
\* the tree is made invalid, more than DM_COMMIT_CTX_ID_MAX_ATTEMPTS rounds end
\* the commit with SR_ERR_INTERNAL, an invalid id takes another round
generate_id(r, found) ==
    /\ new_ctx.phase = "generate"
    /\ found \in sr_btree_search(r)
    /\ LET id == IF found THEN DM_COMMIT_CTX_ID_INVALID ELSE r
           attempts == new_ctx.attempts + 1
       IN  IF attempts > DM_COMMIT_CTX_ID_MAX_ATTEMPTS
           THEN /\ new_ctx' = NoCtx
                /\ prepare_rc' = SR_ERR_INTERNAL
           ELSE IF id = DM_COMMIT_CTX_ID_INVALID
           THEN /\ new_ctx' = [new_ctx EXCEPT !.attempts = attempts]
                /\ UNCHANGED prepare_rc
           ELSE /\ new_ctx' = [phase |-> "commit", id |-> id, attempts |-> attempts]
                /\ prepare_rc' = SR_ERR_OK
    /\ UNCHANGED <<commit_ctxs, removing, np_commits>>
    /\ UNCHANGED <<dmvars, rpvars, schemavars, opervars, regvars>>

\* the end of the commit: dm_commit_notify saves the context if subscribers
\* were notified (dm_save_commit_context, dm_insert_commit_context under the
\* write lock), else the context is freed
commit_end(save) ==
    /\ new_ctx.phase = "commit"
    /\ save => removing = DM_COMMIT_CTX_ID_INVALID
    /\ commit_ctxs' = IF save THEN commit_ctxs \cup {new_ctx.id} ELSE commit_ctxs
    /\ new_ctx' = NoCtx
    /\ UNCHANGED <<removing, prepare_rc, np_commits>>
    /\ UNCHANGED <<dmvars, rpvars, schemavars, opervars, regvars>>

\* dm_remove_commit_context, called for a notification session on another
\* worker thread: the write lock is taken and the context searched
remove_commit_context_begin(id) ==
    /\ removing = DM_COMMIT_CTX_ID_INVALID
    /\ id \in commit_ctxs
    /\ removing' = id
    /\ UNCHANGED <<commit_ctxs, new_ctx, prepare_rc, np_commits>>
    /\ UNCHANGED <<dmvars, rpvars, schemavars, opervars, regvars>>

\* sr_btree_delete has taken the context out, the lock is released
remove_commit_context_end ==
    /\ removing # DM_COMMIT_CTX_ID_INVALID
    /\ commit_ctxs' = commit_ctxs \ {removing}
    /\ removing' = DM_COMMIT_CTX_ID_INVALID
    /\ UNCHANGED <<new_ctx, prepare_rc, np_commits>>
    /\ UNCHANGED <<dmvars, rpvars, schemavars, opervars, regvars>>

\* C35 mutant: the context is searched and left in the tree
dm_remove_commit_context_kept(ctxs, id) == ctxs

\* dm_remove_commit_context with nothing else at work on the tree: the context
\* of the id is deleted from commit_ctxs.tree, and nothing if there is none
dm_remove_commit_context(ctxs, id) == ctxs \ {id}

\* np_commit_notification_ack: the acknowledgment of a subscriber is taken off
\* the acknowledgments the commit waits for
np_commit_notification_ack(pending, sub) == pending \ {sub}

\* the end of dm_commit_notify of a commit that notified the subscribers subs
\* (np_subscription_notify): dm_save_commit_context inserts the context and
\* np_commit_end_notify tells the notification processor what to wait for
commit_end_notify(subs) ==
    /\ new_ctx.phase = "commit"
    /\ removing = DM_COMMIT_CTX_ID_INVALID
    /\ subs # {}
    /\ commit_ctxs' = commit_ctxs \cup {new_ctx.id}
    /\ np_commits' = [np_commits EXCEPT ![new_ctx.id] = subs]
    /\ new_ctx' = NoCtx
    /\ last_req' = Op("commit", "", new_ctx.id, SR_ERR_OK)
    /\ UNCHANGED <<removing, prepare_rc>>
    /\ UNCHANGED <<ly_ctx, md_ctx, disabled_sch, features, pm_features>>
    /\ UNCHANGED <<dmvars, rpvars, schemavars, opervars>>

\* rp_notification_ack_process: the acknowledgment of the subscriber sub for the
\* commit id is passed to np_commit_notification_ack, whatever its result; the
\* last one the commit waits for releases the commit context
notification_ack_commit(sub, id) ==
    /\ removing = DM_COMMIT_CTX_ID_INVALID
    /\ sub \in np_commits[id]
    /\ LET pending == np_commit_notification_ack(np_commits[id], sub)
       IN  /\ np_commits' = [np_commits EXCEPT ![id] = pending]
           /\ commit_ctxs' = IF pending = {} THEN dm_remove_commit_context(commit_ctxs, id)
                             ELSE commit_ctxs
    /\ last_req' = Op("notification_ack", sub, id, SR_ERR_OK)
    /\ UNCHANGED <<removing, new_ctx, prepare_rc>>
    /\ UNCHANGED <<ly_ctx, md_ctx, disabled_sch, features, pm_features>>
    /\ UNCHANGED <<dmvars, rpvars, schemavars, opervars>>

\* rp_commit_release_req_process: np_commit_release of the commit id, which
\* waits for no acknowledgment any more and releases the commit context
commit_release(id) ==
    /\ removing = DM_COMMIT_CTX_ID_INVALID
    /\ id # DM_COMMIT_CTX_ID_INVALID
    /\ np_commits' = [np_commits EXCEPT ![id] = {}]
    /\ commit_ctxs' = dm_remove_commit_context(commit_ctxs, id)
    /\ last_req' = Op("commit_release", "", id, SR_ERR_OK)
    /\ UNCHANGED <<removing, new_ctx, prepare_rc>>
    /\ UNCHANGED <<ly_ctx, md_ctx, disabled_sch, features, pm_features>>
    /\ UNCHANGED <<dmvars, rpvars, schemavars, opervars>>

\* session->commit_id of the notification sessions: the commit whose
\* notification the session was started for
commit_id == [s \in Sessions |-> IF s = "A" THEN 1 ELSE 2]

\* rp_check_notif_session: dm_get_commit_context looks the commit context up.
\* For one that is not there dm_report_error sets the error of the session and
\* its result is dropped, so rc is still the SR_ERR_OK of dm_get_commit_context;
\* for one that is there dm_copy_if_not_loaded copies its tree to the session.
rp_check_notif_session(ctxs, id) ==
    IF id \notin ctxs
    THEN [rc |-> SR_ERR_OK, found |-> FALSE, error_msg |-> "Commit data are not available anymore"]
    ELSE [rc |-> SR_ERR_OK, found |-> TRUE, error_msg |-> ""]

\* rp_get_item_req_process in a notification session: after a
\* rp_check_notif_session that returned SR_ERR_OK the value is read from the
\* tree of the session, which is loaded from the data file that the commits
\* wrote if the session has none; else the response has the error and no value
notif_get_item(s, m) ==
    /\ s \in sessions
    /\ removing = DM_COMMIT_CTX_ID_INVALID
    /\ LET c == rp_check_notif_session(commit_ctxs, commit_id[s])
           r == dm_get_data_info(s, m)
           v == rp_dt_get_value_wrapper(s, m)
       IN  IF c.rc # SR_ERR_OK
           THEN /\ last_req' = Op("get_item", s, <<commit_id[s], c.found, {}>>, c.rc)
                /\ UNCHANGED session_modules
           ELSE /\ last_req' = Op("get_item", s, <<commit_id[s], c.found, v.value>>, v.rc)
                /\ session_modules' = [session_modules EXCEPT
                      ![s] = IF r.loaded THEN Insert(@, m, r.info) ELSE @]
    /\ UNCHANGED <<lockvars, sessvars, operations, edits, filevars, commitvars, histvars>>
    /\ UNCHANGED <<ly_ctx, md_ctx, disabled_sch, features, pm_features>>
    /\ UNCHANGED <<rpvars, schemavars, opervars, ctxvars>>

\* --------------------------------------------------- request processor
Workers == {"w1", "w2"}
Operations == {"GET_ITEM", "COMMIT", "DISCARD_CHANGES"}
RP_REQ_PER_THREADS == 2
NoRequest == [session |-> "", operation |-> ""]

\* C6 mutant: COMMIT takes commit_lock as the reads do
commit_lock_mode_shared(operation) ==
    IF operation \in {"GET_ITEM", "GET_ITEMS", "SET_ITEM", "DELETE_ITEM", "MOVE_ITEM",
                      "SESSION_REFRESH", "COMMIT"}
    THEN "rdlock" ELSE "none"

\* the first switch of rp_req_dispatch: how the operation takes commit_lock
commit_lock_mode(operation) ==
    IF operation \in {"GET_ITEM", "GET_ITEMS", "SET_ITEM", "DELETE_ITEM", "MOVE_ITEM",
                      "SESSION_REFRESH"}
    THEN "rdlock"
    ELSE IF operation = "COMMIT" THEN "wrlock" ELSE "none"

\* pthread_cond_signal(&rp_ctx->request_queue_cv): one of the threads waiting in
\* pthread_cond_wait is woken; with none waiting the signal is lost
pthread_cond_signal ==
    IF \E w \in Workers : pc[w] = "wait"
    THEN \E w \in {x \in Workers : pc[x] = "wait"} : pc' = [pc EXCEPT ![w] = "signaled"]
    ELSE UNCHANGED pc

\* rp_msg_process: the message of the session is counted and enqueued, and a
\* thread is signaled if none is active or the active ones have too much queued
rp_msg_process(s, operation) ==
    /\ sent < MaxMsgs
    /\ sent' = sent + 1
    /\ msg_count' = [msg_count EXCEPT ![s] = @ + 1]
    /\ request_queue' = Append(request_queue, [session |-> s, operation |-> operation])
    /\ IF \/ active_threads = 0
          \/ /\ Len(request_queue') \div active_threads > RP_REQ_PER_THREADS
             /\ active_threads < Cardinality(Workers)
       THEN pthread_cond_signal
       ELSE UNCHANGED pc
    /\ UNCHANGED <<active_threads, commit_lock, req, stopvars, thread_spin_limit, dmvars, schemavars, opervars, ctxvars, regvars>>

RP_THREAD_SPIN_TIMEOUT == 500000
RP_THREAD_SPIN_MIN == 1000
RP_THREAD_SPIN_MAX == 1000000

\* the spin limit rp_msg_process sets when no thread is active; diff are the
\* nanoseconds since the last time it found none active
rp_thread_spin_limit(limit, diff) ==
    IF diff < RP_THREAD_SPIN_TIMEOUT
    THEN IF limit = 0 THEN RP_THREAD_SPIN_MIN
         ELSE IF limit < RP_THREAD_SPIN_MAX THEN limit * 2
         ELSE limit
    ELSE 0

\* rp_msg_process with its time: as above, and with no thread active the spin
\* limit is set.  The messages are not counted in `sent`; the session waits
\* for answers before it has more than MaxMsgs messages under way.
rp_msg_process_timed(s, operation, diff) ==
    /\ msg_count[s] < MaxMsgs
    /\ Len(request_queue) < MaxMsgs
    /\ msg_count' = [msg_count EXCEPT ![s] = @ + 1]
    /\ request_queue' = Append(request_queue, [session |-> s, operation |-> operation])
    /\ thread_spin_limit' = IF active_threads = 0
                            THEN rp_thread_spin_limit(thread_spin_limit, diff)
                            ELSE thread_spin_limit
    /\ IF \/ active_threads = 0
          \/ /\ Len(request_queue') \div active_threads > RP_REQ_PER_THREADS
             /\ active_threads < Cardinality(Workers)
       THEN pthread_cond_signal
       ELSE UNCHANGED pc
    /\ UNCHANGED <<active_threads, commit_lock, req, sent, stopvars, dmvars, schemavars, opervars, ctxvars, regvars>>

\* rp_worker_thread_execute, entry: the thread counts itself active
worker_start(w) ==
    /\ pc[w] = "start"
    /\ active_threads' = active_threads + 1
    /\ pc' = [pc EXCEPT ![w] = "dequeue"]
    /\ UNCHANGED <<request_queue, commit_lock, msg_count, req, sent, stopvars, thread_spin_limit, dmvars, schemavars, opervars, ctxvars, regvars>>

\* sr_cbuff_dequeue under request_queue_mutex
worker_dequeue(w) ==
    /\ pc[w] = "dequeue"
    /\ IF request_queue # <<>>
       THEN /\ req' = [req EXCEPT ![w] = Head(request_queue)]
            /\ request_queue' = Tail(request_queue)
            /\ pc' = [pc EXCEPT ![w] = "dispatch"]
       ELSE /\ pc' = [pc EXCEPT ![w] = "check"]
            /\ UNCHANGED <<req, request_queue>>
    /\ UNCHANGED <<active_threads, commit_lock, msg_count, sent, stopvars, thread_spin_limit, dmvars, schemavars, opervars, ctxvars, regvars>>

\* rp_msg_dispatch -> rp_req_dispatch, up to the lock of commit_lock: rdlock
\* waits while a thread holds it for writing, wrlock while any thread holds it
rp_req_dispatch_lock(w) ==
    /\ pc[w] = "dispatch"
    /\ LET mode == commit_lock_mode(req[w].operation)
       IN  \/ /\ mode = "rdlock"
              /\ commit_lock.writer = {}
              /\ commit_lock' = [commit_lock EXCEPT !.readers = @ \cup {w}]
           \/ /\ mode = "wrlock"
              /\ commit_lock.writer = {} /\ commit_lock.readers = {}
              /\ commit_lock' = [commit_lock EXCEPT !.writer = {w}]
           \/ /\ mode = "none"
              /\ UNCHANGED commit_lock
    /\ pc' = [pc EXCEPT ![w] = "process"]
    /\ UNCHANGED <<request_queue, active_threads, msg_count, req, sent, stopvars, thread_spin_limit, dmvars, schemavars, opervars, ctxvars, regvars>>

\* the rest of rp_req_dispatch, once the request is processed: commit_lock is
\* unlocked; then rp_worker_thread_execute takes the message off msg_count,
\* and cleans the session up if that was its last message and a stop was
\* requested
rp_req_dispatch_unlock(w) ==
    /\ pc[w] = "process"
    /\ commit_lock' = [readers |-> commit_lock.readers \ {w},
                       writer |-> commit_lock.writer \ {w}]
    /\ msg_count' = [msg_count EXCEPT ![req[w].session] = @ - 1]
    /\ cleanups' = [cleanups EXCEPT ![req[w].session] =
                       IF msg_count[req[w].session] - 1 = 0 /\ stop_requested[req[w].session]
                       THEN @ + 1 ELSE @]
    /\ req' = [req EXCEPT ![w] = NoRequest]
    /\ pc' = [pc EXCEPT ![w] = "dequeue"]
    /\ UNCHANGED <<request_queue, active_threads, sent, stop_requested, thread_spin_limit, dmvars, schemavars, opervars, ctxvars, regvars>>

\* C30 mutant: the session is cleaned up when the stop is requested
rp_session_stop_at_once(s) ==
    /\ cleanups' = [cleanups EXCEPT ![s] = @ + 1]
    /\ UNCHANGED <<request_queue, active_threads, commit_lock, msg_count, pc, req, sent,
                   stop_requested, thread_spin_limit>>
    /\ UNCHANGED <<dmvars, schemavars, opervars, ctxvars, regvars>>

\* rp_session_stop: with messages of the session not yet processed the stop is
\* only noted, else the session is cleaned up
rp_session_stop(s) ==
    /\ IF msg_count[s] > 0
       THEN /\ stop_requested' = [stop_requested EXCEPT ![s] = TRUE]
            /\ UNCHANGED cleanups
       ELSE /\ cleanups' = [cleanups EXCEPT ![s] = @ + 1]
            /\ UNCHANGED stop_requested
    /\ UNCHANGED <<request_queue, active_threads, commit_lock, msg_count, pc, req, sent, thread_spin_limit>>
    /\ UNCHANGED <<dmvars, schemavars, opervars, ctxvars, regvars>>

\* nothing was dequeued: under request_queue_mutex the queue is looked at
\* again, and if it is still empty the thread counts itself inactive
worker_check(w) ==
    /\ pc[w] = "check"
    /\ IF request_queue # <<>>
       THEN /\ pc' = [pc EXCEPT ![w] = "dequeue"]
            /\ UNCHANGED active_threads
       ELSE /\ pc' = [pc EXCEPT ![w] = "sleep"]
            /\ active_threads' = active_threads - 1
    /\ UNCHANGED <<request_queue, commit_lock, msg_count, req, sent, stopvars, thread_spin_limit, dmvars, schemavars, opervars, ctxvars, regvars>>

\* request_queue_mutex is locked again and pthread_cond_wait entered
worker_wait(w) ==
    /\ pc[w] = "sleep"
    /\ pc' = [pc EXCEPT ![w] = "wait"]
    /\ UNCHANGED <<request_queue, active_threads, commit_lock, msg_count, req, sent, stopvars, thread_spin_limit, dmvars, schemavars, opervars, ctxvars, regvars>>

\* pthread_cond_wait returns: the thread counts itself active
worker_wakeup(w) ==
    /\ pc[w] = "signaled"
    /\ active_threads' = active_threads + 1
    /\ pc' = [pc EXCEPT ![w] = "dequeue"]
    /\ UNCHANGED <<request_queue, commit_lock, msg_count, req, sent, stopvars, thread_spin_limit, dmvars, schemavars, opervars, ctxvars, regvars>>

InitFile == [content |-> "complete", tree |-> {InitialValue}, mtime |-> 1]

\* the state after construction, with the data files fs
InitWith(fs) ==
    /\ sessions = {}
    /\ datastore = [s \in Sessions |-> SR_DS_STARTUP]
    /\ locked_files = [o \in Owners |-> {}]
    /\ holds_ds_lock = [o \in Owners |-> FALSE]
    /\ locking_ctx = {}
    /\ ds_lock = FALSE
    /\ session_modules = [s \in Sessions |-> NoModules]
    /\ operations = [s \in Sessions |-> <<>>]
    /\ files = fs
    /\ last_commit_time = 0
    /\ clock = 2
    /\ c_ctx = NoCommit
    /\ np_notified = NoNotifications
    /\ edits = 0
    /\ faults = 0
    /\ persisted = {}
    /\ committed = [k \in Keys |-> {}]
    /\ ended_holding = [s \in Sessions |-> {}]
    /\ last_lock = Op("init", "", "", SR_ERR_OK)
    /\ last_commit = NoAnswer
    /\ request_queue = <<>>
    /\ active_threads = 0
    /\ commit_lock = [readers |-> {}, writer |-> {}]
    /\ msg_count = [s \in Sessions |-> 0]
    /\ stop_requested = [s \in Sessions |-> FALSE]
    /\ cleanups = [s \in Sessions |-> 0]
    /\ pc = [w \in Workers |-> "start"]
    /\ req = [w \in Workers |-> NoRequest]
    /\ sent = 0
    /\ thread_spin_limit = 0
    /\ node_state = [n \in SchemaNodes |-> DM_NODE_DISABLED]
    /\ hung = {}
    /\ rp_state = [s \in Sessions |-> RP_REQ_NEW]
    /\ cur_req = [s \in Sessions |-> NoMsg]
    /\ dp_req_waiting = [s \in Sessions |-> 0]
    /\ oper_queue = <<>>
    /\ timers = {}
    /\ dp_requests = {}
    /\ reads = 0
    /\ suspended = {}
    /\ answered = {}
    /\ freed = {}
    /\ cur_req_mutex = [s \in Sessions |-> ""]
    /\ handler = [w \in Workers |-> NoHandler]
    /\ unprotected = {}
    /\ commit_ctxs = {}
    /\ removing = DM_COMMIT_CTX_ID_INVALID
    /\ new_ctx = NoCtx
    /\ prepare_rc = SR_ERR_OK
    /\ np_commits = [id \in Ids |-> {}]
    /\ ly_ctx = ModuleNames
    /\ md_ctx = ModuleNames
    /\ disabled_sch = {}
    /\ features = [m \in SchemaNames |-> {}]
    /\ pm_features = [m \in SchemaNames |-> {}]
    /\ last_req = Op("init", "", "", SR_ERR_OK)

Init == InitWith([k \in Keys |-> InitFile])

\* The data operations of Spec: two sessions read, edit and commit the data of
\* one module; the sessions of a run are on the same datastore, either one
DataModules == {Modules[1]}

Next ==
    \/ \E s \in Sessions, ds \in Datastores :
          /\ \A t \in sessions : datastore[t] = ds
          /\ \A m \in ModuleNames, d \in Datastores \ {ds} : files[<<m, d>>] = InitFile
          /\ dm_session_start(s, ds)
    \/ \E s \in Sessions : dm_session_stop(s)
    \/ \E s \in Sessions, m \in DataModules : get_item(s, m)
    \/ \E s \in Sessions, m \in DataModules : set_item(s, m)
    \/ \E s \in Sessions : discard_changes(s)
    \/ \E s \in Sessions, recent \in BOOLEAN : refresh(s, recent)
    \/ \E s \in Sessions, recent \in BOOLEAN : commit_begin(s, recent)
    \/ \E outcome \in [Range(c_ctx.modified) -> WriteOutcomes] : commit_write(outcome)
    \/ commit_finish
    \/ \E id \in SubscriptionIds, result \in {SR_ERR_OK, SR_ERR_OPERATION_FAILED} :
          notification_ack(id, result)

Spec == Init /\ [][Next]_vars

NextLock ==
    \/ \E s \in Sessions, ds \in Datastores : dm_session_start(s, ds)
    \/ \E s \in Sessions : dm_session_stop(s)
    \/ \E s \in Sessions, m \in ModuleNames, denied \in SUBSET ModuleNames :
          lock_module(s, m, denied)
    \/ \E s \in Sessions, m \in ModuleNames : unlock_module(s, m)
    \/ \E s \in Sessions, denied \in SUBSET ModuleNames : lock_datastore(s, denied)
    \/ \E s \in Sessions : unlock_datastore(s)

SpecLock == Init /\ [][NextLock]_vars

\* The lock requests of SpecLockCommit: two sessions of one datastore edit and
\* commit the data of one module and lock that module or the datastore
NextLockCommit ==
    \/ \E s \in Sessions, ds \in Datastores :
          /\ \A t \in sessions : datastore[t] = ds
          /\ \A m \in ModuleNames, d \in Datastores \ {ds} : files[<<m, d>>] = InitFile
          /\ dm_session_start(s, ds)
    \/ \E s \in Sessions, m \in DataModules : set_item(s, m)
    \/ \E s \in Sessions, m \in DataModules \cup {NoModule} : lock(s, m, {})
    \/ \E s \in Sessions : unlock_datastore(s)
    \/ \E s \in Sessions, recent \in BOOLEAN : commit_begin(s, recent)
    \/ \E outcome \in [Range(c_ctx.modified) -> {"ok"}] : commit_write(outcome)
    \/ commit_finish

SpecLockCommit == Init /\ [][NextLockCommit]_vars

\* The commits of SpecNotify: the sessions edit both modules and commit them,
\* and the subscribers acknowledge
NextNotify ==
    \/ \E s \in Sessions, ds \in Datastores :
          /\ \A t \in sessions : datastore[t] = ds
          /\ \A m \in ModuleNames, d \in Datastores \ {ds} : files[<<m, d>>] = InitFile
          /\ dm_session_start(s, ds)
    \/ \E s \in Sessions, m \in ModuleNames : set_item(s, m)
    \/ \E s \in Sessions, recent \in BOOLEAN : commit_begin(s, recent)
    \/ \E outcome \in [Range(c_ctx.modified) -> {"ok"}] : commit_write(outcome)
    \/ commit_finish
    \/ \E id \in SubscriptionIds : notification_ack(id, SR_ERR_OK)

SpecNotify == Init /\ [][NextNotify]_vars

\* The requests of SpecEnable: subscriptions enable and disable the nodes of
\* the module in running while candidate sessions edit and commit its data.
\* The running file of the module is empty at first.
InitEnable ==
    /\ sessions = {}
    /\ datastore = [s \in Sessions |-> SR_DS_CANDIDATE]
    /\ locked_files = [o \in Owners |-> {}]
    /\ holds_ds_lock = [o \in Owners |-> FALSE]
    /\ locking_ctx = {}
    /\ ds_lock = FALSE
    /\ session_modules = [s \in Sessions |-> NoModules]
    /\ operations = [s \in Sessions |-> <<>>]
    /\ files = [k \in Keys |-> [content |-> "empty", tree |-> {}, mtime |-> 1]]
    /\ last_commit_time = 0
    /\ clock = 2
    /\ c_ctx = NoCommit
    /\ np_notified = NoNotifications
    /\ edits = 0
    /\ faults = 0
    /\ persisted = {}
    /\ committed = [k \in Keys |-> {}]
    /\ ended_holding = [s \in Sessions |-> {}]
    /\ last_lock = Op("init", "", "", SR_ERR_OK)
    /\ last_commit = NoAnswer
    /\ request_queue = <<>>
    /\ active_threads = 0
    /\ commit_lock = [readers |-> {}, writer |-> {}]
    /\ msg_count = [s \in Sessions |-> 0]
    /\ stop_requested = [s \in Sessions |-> FALSE]
    /\ cleanups = [s \in Sessions |-> 0]
    /\ pc = [w \in Workers |-> "start"]
    /\ req = [w \in Workers |-> NoRequest]
    /\ sent = 0
    /\ thread_spin_limit = 0
    /\ node_state = [n \in SchemaNodes |-> DM_NODE_DISABLED]
    /\ hung = {}
    /\ rp_state = [s \in Sessions |-> RP_REQ_NEW]
    /\ cur_req = [s \in Sessions |-> NoMsg]
    /\ dp_req_waiting = [s \in Sessions |-> 0]
    /\ oper_queue = <<>>
    /\ timers = {}
    /\ dp_requests = {}
    /\ reads = 0
    /\ suspended = {}
    /\ answered = {}
    /\ freed = {}
    /\ cur_req_mutex = [s \in Sessions |-> ""]
    /\ handler = [w \in Workers |-> NoHandler]
    /\ unprotected = {}
    /\ commit_ctxs = {}
    /\ removing = DM_COMMIT_CTX_ID_INVALID
    /\ new_ctx = NoCtx
    /\ prepare_rc = SR_ERR_OK
    /\ np_commits = [id \in Ids |-> {}]
    /\ ly_ctx = ModuleNames
    /\ md_ctx = ModuleNames
    /\ disabled_sch = {}
    /\ features = [m \in SchemaNames |-> {}]
    /\ pm_features = [m \in SchemaNames |-> {}]
    /\ last_req = Op("init", "", "", SR_ERR_OK)

NextEnable ==
    \/ \E s \in Sessions : dm_session_start(s, SR_DS_CANDIDATE)
    \/ enable_module_running
    \/ \E n \in SchemaNodes : enable_module_subtree_running(n)
    \/ disable_module_running
    \/ \E s \in Sessions, n \in SchemaNodes, undefined \in {"returns", "hangs"} :
          candidate_set_item(s, n, undefined)
    \/ \E s \in Sessions : candidate_commit(s)
    \/ \E id \in SubscriptionIds : notification_ack(id, SR_ERR_OK)

SpecEnable == InitEnable /\ [][NextEnable]_vars

\* The messages of SpecOper: clients read, the data providers answer or do
\* not, the timeouts run out.  The worker threads dispatch every read in the
\* queue and every timeout is delivered.
DispatchGetItem ==
    \E asked \in SUBSET Providers, undefined \in {"processed", "dropped"} :
       dispatch_get_item(asked, undefined)

OperDataTimeout == \E t \in timers : oper_data_timeout(t)

NextOper ==
    \/ \E s \in Sessions : client_get_item(s)
    \/ DispatchGetItem
    \/ \E r \in dp_requests : data_provide_resp(r)
    \/ OperDataTimeout

SpecOper ==
    /\ Init /\ [][NextOper]_vars
    /\ WF_vars(DispatchGetItem)
    /\ \A t \in [session : Sessions, request_id : ReadIds] : WF_vars(oper_data_timeout(t))

\* The steps of SpecWrite: the sessions of the startup datastore edit the data
\* of both modules and commit them, and writes of the files fail
NextWrite ==
    \/ \E s \in Sessions : dm_session_start(s, SR_DS_STARTUP)
    \/ \E s \in Sessions, m \in ModuleNames : set_item(s, m)
    \/ \E s \in Sessions : discard_changes(s)
    \/ \E s \in Sessions : commit_begin(s, TRUE)
    \/ \E outcome \in [Range(c_ctx.modified) -> WriteOutcomes] : commit_write(outcome)
    \/ commit_finish

SpecWrite == Init /\ [][NextWrite]_vars

\* The steps of SpecValidate: running sessions edit the data of a module, read
\* it with the state data of its provider, and ask for the validation and for
\* the commit of edits that lyd_validate may reject
NextValidate ==
    \/ \E s \in Sessions : dm_session_start(s, SR_DS_RUNNING)
    \/ \E s \in Sessions, m \in DataModules : set_item(s, m)
    \/ \E s \in Sessions, m \in DataModules : get_item_state_data(s, m)
    \/ \E s \in Sessions, invalid \in SUBSET DataModules : validate(s, invalid)
    \/ \E s \in Sessions, invalid \in SUBSET DataModules : commit_invalid(s, FALSE, invalid)
    \/ \E s \in Sessions : discard_changes(s)

SpecValidate == Init /\ [][NextValidate]_vars

\* The steps of SpecSchema: modules are installed and uninstalled, their
\* features enabled and disabled, and their schemas asked for
NextSchema ==
    \/ \E m \in SchemaNames, installed \in BOOLEAN, found \in BOOLEAN :
          module_install(m, installed, found)
    \/ \E m \in SchemaNames : get_schema(m)
    \/ \E m \in SchemaNames, f \in FeatureNames, enable \in BOOLEAN,
          pm_rc \in {SR_ERR_OK, SR_ERR_IO} : feature_enable(m, f, enable, pm_rc)

SpecSchema == Init /\ [][NextSchema]_vars

\* The steps of SpecReplay: two sessions of the startup datastore load a
\* module, set leaves of it and commit; a commit may leave the mtime of a file
\* as it was
NextReplay ==
    \/ \E s \in Sessions : dm_session_start(s, SR_DS_STARTUP)
    \/ \E s \in Sessions : get_item(s, Modules[1])
    \/ \E s \in Sessions, leaf \in Leaves : set_item_leaf(s, Modules[1], leaf)
    \/ \E s \in Sessions, recent \in BOOLEAN : commit_begin(s, recent)
    \/ commit_write_coarse([m \in Range(c_ctx.modified) |-> "ok"])
    \/ commit_finish

SpecReplay == Init /\ [][NextReplay]_vars

\* The steps of SpecProvide: the reads of one session, the data providers and
\* the timeouts, without the fairness of SpecOper, for the properties of
\* single steps
NextProvide ==
    \/ client_get_item("A")
    \/ DispatchGetItem
    \/ \E r \in dp_requests : data_provide_resp(r)
    \/ OperDataTimeout

SpecProvide == Init /\ [][NextProvide]_vars

\* The steps of SpecMutex: the reads, the responses of the data providers and
\* the timeouts, handled by the worker threads step by step
NextMutex ==
    \/ \E s \in Sessions : client_get_item(s)
    \/ \E w \in Workers, undefined \in {"processed", "dropped"} : get_item_lock(w, undefined)
    \/ \E w \in Workers : get_item_lock_timeout(w)
    \/ \E w \in Workers, asked \in SUBSET Providers : get_item_locked(w, asked)
    \/ \E w \in Workers : get_item_cleanup(w)
    \/ \E w \in Workers, r \in dp_requests : data_provide_resp_locked(w, r)
    \/ \E w \in Workers, t \in timers : oper_data_timeout_process(w, t)

SpecMutex == Init /\ [][NextMutex]_vars

\* The steps of SpecFresh: the freshness of a copy is judged, for every
\* timestamp, mtime, current time and time of the last commit
NextFresh ==
    \E timestamp \in Timespecs, st_mtim \in Timespecs, now \in Timespecs, lct \in Timespecs :
        is_info_copy_uptodate(timestamp, st_mtim, now, lct)

SpecFresh == Init /\ [][NextFresh]_vars

\* --------------------------------------------- matching of subscriptions
\* a subscription without an xpath has no schema node
NoNode == "NULL"

\* the kinds of entries of a diff list, but LYD_DIFF_END
DiffTypes == {"LYD_DIFF_DELETED", "LYD_DIFF_CHANGED", "LYD_DIFF_MOVEDAFTER1",
              "LYD_DIFF_CREATED", "LYD_DIFF_MOVEDAFTER2"}

\* the entries lyd_diff can give for a node: a leaf is created, deleted or
\* changed; an inner node, taken as an entry of a list ordered by the user, is
\* created, deleted or moved
DiffTypesOf(d) ==
    IF IsInner(d) THEN DiffTypes \ {"LYD_DIFF_CHANGED"}
    ELSE {"LYD_DIFF_DELETED", "LYD_DIFF_CHANGED", "LYD_DIFF_CREATED"}

\* the data subtrees a node of schema d can be the root of, as the sets of the
\* schema nodes of their nodes
Subtrees(d) == {{d} \cup kids : kids \in SUBSET Range(Children[d])}

\* dm_match_subscription(sub_node, node): node has the schema d and the
\* subtree `subtree`; the kind of the diff entry is not an argument
dm_match_subscription(sub_node, d, subtree) ==
    IF sub_node = NoNode THEN TRUE
    ELSE IF sub_node \in {d} \cup Ancestors(d) THEN TRUE
    ELSE IF IsInner(d)
    THEN /\ d \in {sub_node} \cup Ancestors(sub_node)
         /\ sub_node \in subtree
    ELSE FALSE

\* one round of the loop of dm_commit_notify over the diff list: the node of
\* the entry (dm_get_notification_match_node) is matched with the subscription
match_subscription(sub_node, d, type, subtree) ==
    /\ last_req' = Op("match_subscription", "", <<sub_node, d, type, subtree>>,
                      dm_match_subscription(sub_node, d, subtree))
    /\ UNCHANGED <<ly_ctx, md_ctx, disabled_sch, features, pm_features>>
    /\ UNCHANGED <<dmvars, rpvars, schemavars, opervars, ctxvars>>

NextMatch ==
    \E sub_node \in SchemaNodes \cup {NoNode}, d \in SchemaNodes :
       \E type \in DiffTypesOf(d), subtree \in Subtrees(d) :
          match_subscription(sub_node, d, type, subtree)

SpecMatch == Init /\ [][NextMatch]_vars

\* ------------------------------------------------------ NACM read filtering
\* the data trees of the schema: with a node they have the nodes above it
DataTrees == {tree \in SUBSET SchemaNodes :
                 tree # {} /\ \A n \in tree : Ancestors(n) \subseteq tree}

\* the nodes of `tree` among the sequence of schema nodes seq, in its order
Present(tree, seq) == SelectSeq(seq, LAMBDA n : n \in tree)

\* the siblings of the data node n in the tree, n included
Siblings(tree, n) ==
    IF Parents(n) = {} THEN Present(tree, TopLevel)
    ELSE Present(tree, Children[CHOOSE p \in Parents(n) : TRUE])

\* node->next and node->parent, NoNode for NULL
lyd_next(tree, n) ==
    LET sibs == Siblings(tree, n)
        i == CHOOSE j \in 1..Len(sibs) : sibs[j] = n
    IN  IF i < Len(sibs) THEN sibs[i + 1] ELSE NoNode

lyd_parent(n) == IF Parents(n) = {} THEN NoNode ELSE CHOOSE p \in Parents(n) : TRUE

\* the nodes lyd_free(node) frees: the node and what is below it
lyd_subtree(tree, n) == {x \in tree : x = n \/ n \in Ancestors(x)}

\* the loop of rp_dt_nacm_filtering from the node `node` on; `denied` are the
\* nodes nacm_check_data answers NACM_ACTION_DENY for.  A denied node is freed
\* with its subtree in the copy of the tree; freeing the first node of the copy
\* leaves `result` pointing to freed memory.  A permitted node is descended into
\* if its schema is a leaf, leaf-list or anydata and node->child is not NULL:
\* of a leaf that reads the value of the leaf as a pointer to a node; of a
\* container or list the children are not visited.  `undefined` says what the
\* request does after either: it goes on as if nothing was wrong, or it crashes.
RECURSIVE nacm_filtering_loop(_, _, _, _, _, _, _)
nacm_filtering_loop(data_tree, result, node, backtracking, denied, undefined, ub) ==
    IF node = NoNode THEN [outcome |-> "returns", result |-> result, ub |-> ub]
    ELSE IF ~ backtracking
    THEN IF node \in denied
         THEN LET head == node = Present(data_tree, TopLevel)[1]
                  next == lyd_next(result, node)
                  pruned == result \ lyd_subtree(result, node)
              IN  IF head /\ undefined = "crashes"
                  THEN [outcome |-> "crashes", result |-> {}, ub |-> TRUE]
                  ELSE nacm_filtering_loop(data_tree, IF head THEN result ELSE pruned,
                          IF next # NoNode THEN next ELSE lyd_parent(node),
                          next = NoNode, denied, undefined, ub \/ head)
         ELSE IF ~ IsInner(node)
         THEN IF undefined = "crashes"
              THEN [outcome |-> "crashes", result |-> {}, ub |-> TRUE]
              ELSE nacm_filtering_loop(data_tree, result,
                      IF lyd_next(result, node) # NoNode THEN lyd_next(result, node) ELSE node,
                      lyd_next(result, node) = NoNode, denied, undefined, TRUE)
         ELSE IF lyd_next(result, node) # NoNode
         THEN nacm_filtering_loop(data_tree, result, lyd_next(result, node), FALSE,
                                  denied, undefined, ub)
         ELSE nacm_filtering_loop(data_tree, result, node, TRUE, denied, undefined, ub)
    ELSE IF lyd_next(result, node) # NoNode
    THEN nacm_filtering_loop(data_tree, result, lyd_next(result, node), FALSE,
                             denied, undefined, ub)
    ELSE nacm_filtering_loop(data_tree, result, lyd_parent(node), TRUE,
                             denied, undefined, ub)

\* rp_dt_nacm_filtering of a data tree with NACM enabled; data_tree points to
\* the first top-level node
rp_dt_nacm_filtering(data_tree, denied, undefined) ==
    nacm_filtering_loop(data_tree, data_tree, Present(data_tree, TopLevel)[1], FALSE,
                        denied, undefined, FALSE)

\* a read answered with the tree that rp_dt_nacm_filtering gives
nacm_filtering(data_tree, denied, undefined) ==
    /\ last_req' = Op("nacm_filtering", "", <<data_tree, denied>>,
                      rp_dt_nacm_filtering(data_tree, denied, undefined))
    /\ UNCHANGED <<ly_ctx, md_ctx, disabled_sch, features, pm_features>>
    /\ UNCHANGED <<dmvars, rpvars, schemavars, opervars, ctxvars>>

NextFilter ==
    \E data_tree \in DataTrees, denied \in SUBSET SchemaNodes,
       undefined \in {"goes on", "crashes"} :
          nacm_filtering(data_tree, denied, undefined)

SpecFilter == Init /\ [][NextFilter]_vars

\* The data files of SpecOpen: module m1 has no startup file yet
FilesOpen ==
    [k \in Keys |-> IF k = <<Modules[1], SR_DS_STARTUP>>
                    THEN [content |-> "absent", tree |-> {}, mtime |-> 0]
                    ELSE InitFile]

\* The steps of SpecOpen: sessions of the startup datastore edit and lock
\* modules, and commits fail on a module lock, an open or a file lock
NextOpen ==
    \/ \E s \in Sessions : dm_session_start(s, SR_DS_STARTUP)
    \/ \E s \in Sessions, m \in ModuleNames : set_item(s, m)
    \/ \E s \in Sessions, m \in ModuleNames : lock_module(s, m, {})
    \/ \E s \in Sessions, unauthorized \in SUBSET ModuleNames, fd_locked \in SUBSET ModuleNames :
          commit_open_fail(s, unauthorized, fd_locked)

SpecOpen == InitWith(FilesOpen) /\ [][NextOpen]_vars

\* The steps of SpecCopy: a session of the candidate and one of the startup
\* datastore, edits of the candidate, module locks, and copies between the
\* datastores in which opening or printing a file may fail
NextCopy ==
    \/ dm_session_start("A", SR_DS_CANDIDATE)
    \/ dm_session_start("B", SR_DS_STARTUP)
    \/ \E s \in Sessions, m \in ModuleNames : set_item_candidate(s, m)
    \/ \E s \in Sessions, m \in ModuleNames :
          datastore[s] = SR_DS_STARTUP /\ lock_module(s, m, {})
    \/ \E s \in Sessions, mods \in CopyLists, src \in CopyDatastores, dst \in CopyDatastores,
          invalid \in SUBSET {Modules[1]}, open_fail \in 0..Len(Modules),
          print_fail \in SUBSET {Modules[1]} :
             copy_config(s, mods, src, dst, invalid, open_fail, print_fail)

SpecCopy == Init /\ [][NextCopy]_vars

\* The steps of SpecCtx: commits one after the other get their context ids
\* while the contexts of earlier commits are removed
NextCtx ==
    \/ commit_prepare_context
    \/ \E r \in Ids, found \in BOOLEAN : generate_id(r, found)
    \/ \E save \in BOOLEAN : commit_end(save)
    \/ \E id \in Ids : remove_commit_context_begin(id)
    \/ remove_commit_context_end

SpecCtx == Init /\ [][NextCtx]_vars

\* The steps of SpecRetry: sessions of the startup datastore edit the modules
\* and their logs are replayed, with operations that fail
NextRetry ==
    \/ \E s \in Sessions : dm_session_start(s, SR_DS_STARTUP)
    \/ \E s \in Sessions, m \in ModuleNames : set_item(s, m)
    \/ \E s \in Sessions, errs \in ReplayErrors, invalid \in SUBSET {Modules[1]} :
          replay(s, errs, invalid)

SpecRetry == Init /\ [][NextRetry]_vars

\* The steps of SpecNotifSession: commits save their contexts, which are
\* removed again, while the notification sessions of two commits read
NextNotifSession ==
    \/ commit_prepare_context
    \/ \E r \in Ids, found \in BOOLEAN : generate_id(r, found)
    \/ \E save \in BOOLEAN : commit_end(save)
    \/ \E id \in Ids : remove_commit_context_begin(id)
    \/ remove_commit_context_end
    \/ \E s \in Sessions : dm_session_start(s, SR_DS_RUNNING)
    \/ \E s \in Sessions, m \in ModuleNames : notif_get_item(s, m)

SpecNotifSession == Init /\ [][NextNotifSession]_vars

\* The steps of SpecRelease: commits of the first module notify subscribers of
\* it and save their contexts, the subscribers acknowledge, and commits are
\* released
NextRelease ==
    \/ commit_prepare_context
    \/ \E r \in Ids, found \in BOOLEAN : generate_id(r, found)
    \/ \E subs \in SUBSET {sub.id : sub \in Range(dm_prepare_module_subscriptions(Modules[1]))} :
          commit_end_notify(subs)
    \/ \E sub \in SubscriptionIds, id \in Ids : notification_ack_commit(sub, id)
    \/ \E id \in Ids : commit_release(id)

SpecRelease == Init /\ [][NextRelease]_vars

NextRP ==
    \/ \E s \in Sessions, operation \in Operations : rp_msg_process(s, operation)
    \/ \E w \in Workers : worker_start(w)
    \/ \E w \in Workers : worker_dequeue(w)
    \/ \E w \in Workers : rp_req_dispatch_lock(w)
    \/ \E w \in Workers : rp_req_dispatch_unlock(w)
    \/ \E w \in Workers : worker_check(w)
    \/ \E w \in Workers : worker_wait(w)
    \/ \E w \in Workers : worker_wakeup(w)

SpecRP == Init /\ [][NextRP]_vars

\* a worker thread goes on with its next step
worker_step(w) ==
    \/ worker_start(w)
    \/ worker_dequeue(w)
    \/ rp_req_dispatch_lock(w)
    \/ rp_req_dispatch_unlock(w)
    \/ worker_check(w)
    \/ worker_wait(w)
    \/ worker_wakeup(w)

\* SpecRP with threads that are scheduled: a worker thread that can go on does
SpecRPFair == SpecRP /\ \A w \in Workers : WF_vars(worker_step(w))

\* The steps of SpecStop: the messages of sessions that were not cleaned up, the
\* worker threads, and the one stop of a session the connection manager asks for
\* The steps of SpecSpin: the messages of one session come closely spaced or
\* not, and the worker threads process them
NextSpin ==
    \/ \E diff \in {RP_THREAD_SPIN_TIMEOUT - 1, RP_THREAD_SPIN_TIMEOUT} :
          rp_msg_process_timed("A", "GET_ITEM", diff)
    \/ \E w \in Workers : worker_step(w)

SpecSpin == Init /\ [][NextSpin]_vars

NextStop ==
    \/ \E s \in Sessions, operation \in {"GET_ITEM", "COMMIT"} :
          cleanups[s] = 0 /\ rp_msg_process(s, operation)
    \/ \E w \in Workers : worker_step(w)
    \/ \E s \in Sessions : ~ stop_requested[s] /\ cleanups[s] = 0 /\ rp_session_stop(s)

SpecStop == Init /\ [][NextStop]_vars

\* ------------------------------------------------- properties of the locks
\* C8: a lock file (a module in a datastore) is in the locked_files of at most
\* one session, and while a session holds it, dm_lock_module on it by any
\* other session returns SR_ERR_LOCKED
C8_ModuleLockExclusive ==
    /\ \A s, t \in Owners : s # t => locked_files[s] \cap locked_files[t] = {}
    /\ \A t \in Sessions : \A s \in Sessions \ {t} : \A key \in locked_files[t] :
          \A denied \in SUBSET LockFiles(ModuleNames, datastore[s]) :
             dm_lock_module(locking_ctx, locked_files[s], key, denied).rc = SR_ERR_LOCKED
    /\ locking_ctx = UNION {locked_files[o] : o \in Owners}

\* B asked for the module A holds and was answered SR_ERR_LOCKED
C8_Witness ==
    /\ last_lock = Op("lock_module", "B", Modules[1], SR_ERR_LOCKED)
    /\ {"A", "B"} \subseteq sessions
    /\ sr_get_lock_data_file_name(Modules[1], datastore["B"]) \in locked_files["A"]
    /\ locked_files["B"] = {}

\* C9: the step that stops a session leaves none of its lock files locked and
\* gives back the datastore lock if the session held it, so that dm_lock_module
\* by another session (one that may write the file) on any file it held
\* returns SR_ERR_OK
C9_SessionStopReleasesLocks ==
    [][\A s \in sessions : s \notin sessions' =>
          /\ locked_files'[s] = {}
          /\ ~ holds_ds_lock'[s]
          /\ locked_files[s] \cap locking_ctx' = {}
          /\ holds_ds_lock[s] => ~ ds_lock'
          /\ \A t \in Sessions \ {s} : \A key \in locked_files[s] :
                dm_lock_module(locking_ctx', locked_files'[t], key, {}).rc = SR_ERR_OK]_vars

\* A was stopped holding the module's lock, and B then locked the module
C9_Witness ==
    /\ "A" \notin sessions
    /\ last_lock = Op("lock_module", "B", Modules[1], SR_ERR_OK)
    /\ sr_get_lock_data_file_name(Modules[1], datastore["B"]) \in ended_holding["A"]
    /\ sr_get_lock_data_file_name(Modules[1], datastore["B"]) \in locked_files["B"]

\* C10: at most one session holds the datastore lock, the flag ds_lock is set
\* exactly while one does, and dm_lock_datastore by a session while another
\* one holds it returns SR_ERR_LOCKED and leaves every lock as it was
C10_DatastoreLockExclusive ==
    /\ Cardinality({o \in Owners : holds_ds_lock[o]}) <= 1
    /\ ds_lock <=> \E o \in Owners : holds_ds_lock[o]
    /\ \A s \in Sessions :
          (\E t \in Sessions \ {s} : holds_ds_lock[t]) =>
            \A denied \in SUBSET LockFiles(ModuleNames, datastore[s]) :
              LET r == dm_lock_datastore(datastore[s], locking_ctx, locked_files[s], ds_lock,
                                         denied)
              IN  /\ r.rc = SR_ERR_LOCKED
                  /\ ~ r.touched
                  /\ r.lf = locked_files[s]
                  /\ r.ctx = locking_ctx
                  /\ r.ds_lock = ds_lock

\* B asked for the datastore lock while A held it and was answered SR_ERR_LOCKED
C10_Witness ==
    /\ last_lock = Op("lock_datastore", "B", "", SR_ERR_LOCKED)
    /\ holds_ds_lock["A"]
    /\ ~ holds_ds_lock["B"]
    /\ locked_files["B"] = {}
    /\ locked_files["A"] = {sr_get_lock_data_file_name(m, datastore["A"]) : m \in ModuleNames}

\* C11: for a session with a modified data tree a datastore lock request fails
\* and leaves the session's lock files, the locking set, ds_lock and
\* holds_ds_lock as they were
C11_NoDatastoreLockWhenModified ==
    \A s \in sessions :
        ModifiedModules(session_modules[s]) # <<>> =>
            \A denied \in SUBSET LockFiles(ModuleNames, datastore[s]) :
                LET r == rp_dt_lock(s, NoModule, denied)
                IN  /\ r.rc # SR_ERR_OK
                    /\ r.lf = locked_files[s]
                    /\ r.ctx = locking_ctx
                    /\ r.ds_lock = ds_lock
                    /\ r.holds = holds_ds_lock[s]

\* B, with an uncommitted edit, asked for the datastore lock nobody held, with
\* no module locked either, and was refused
C11_Witness ==
    /\ last_lock = Op("lock", "B", NoModule, SR_ERR_OPERATION_FAILED)
    /\ "B" \in sessions
    /\ ModifiedModules(session_modules["B"]) # <<>>
    /\ ~ ds_lock
    /\ locking_ctx = {}
    /\ ~ holds_ds_lock["B"]

\* C12: a dm_lock_datastore call that returns a failure leaves the session with
\* no lock file it did not hold before and without a datastore lock it did not
\* hold before; one that returns SR_ERR_OK leaves it with the lock file of
\* every module of its datastore
C12_LockDatastoreAllOrNothing ==
    [][\A s \in Sessions : \A denied \in SUBSET ModuleNames :
          lock_datastore(s, denied) =>
              IF last_lock'.rc = SR_ERR_OK
              THEN LockFiles(ModuleNames, datastore[s]) \subseteq locked_files'[s]
              ELSE /\ locked_files'[s] \subseteq locked_files[s]
                   /\ holds_ds_lock'[s] => holds_ds_lock[s]]_vars

\* C13: a commit request of a session that has modified a module whose lock
\* file another session holds is answered with a failure; it opens no commit
\* context and leaves every data file as it was
C13_NoCommitOfLockedModule ==
    [][\A s \in Sessions : \A recent \in BOOLEAN : \A m \in ModuleNames :
          ( /\ commit_begin(s, recent)
            /\ dm_is_model_modified(s, m)
            /\ operations[s] # <<>>
            /\ \E t \in Sessions \ {s} :
                  sr_get_lock_data_file_name(m, datastore[s]) \in locked_files[t] )
          => /\ last_commit'.s = s
             /\ last_commit'.rc # SR_ERR_OK
             /\ c_ctx'.phase = "none"
             /\ files' = files]_vars

\* A holds the lock of the module, B has edited the module and its commit was
\* answered SR_ERR_LOCKED; the data file is the installed one
C13_Witness ==
    /\ last_commit = [s |-> "B", rc |-> SR_ERR_LOCKED]
    /\ sr_get_lock_data_file_name(Modules[1], datastore["B"]) \in locked_files["A"]
    /\ dm_is_model_modified("B", Modules[1])
    /\ operations["B"] # <<>>
    /\ files[sr_get_data_file_name(Modules[1], datastore["B"])] = InitFile

\* ------------------------------------- properties of reads, edits and commit
\* the session that wrote a value
Author(v) == v[1]

\* C1: a value a session reads that another session wrote has been written to
\* the data file by a commit of its author: no read returns a value that is
\* only in another session's working copy or operation log
C1_SessionIsolation ==
    \A s \in sessions : \A m \in ModuleNames :
        \A v \in rp_dt_get_value_wrapper(s, m).value :
            Author(v) \in Sessions \ {s} => v \in persisted

\* A has an edit it has not committed on top of one it has; B reads the
\* committed value
C1_Witness ==
    /\ {"A", "B"} \subseteq sessions
    /\ datastore["A"] = datastore["B"]
    /\ commit_lock_free
    /\ operations["A"] = <<[module |-> Modules[1], value |-> <<"A", 2>>]>>
    /\ rp_dt_get_value_wrapper("A", Modules[1]).value = {<<"A", 2>>}
    /\ Modules[1] \in DOMAIN session_modules["B"]
    /\ rp_dt_get_value_wrapper("B", Modules[1]).value = {<<"A", 1>>}

\* session s loaded module m and another session has committed a change to the
\* module since
Stale(s, m) ==
    LET key == sr_get_data_file_name(m, datastore[s])
    IN  /\ m \in DOMAIN session_modules[s]
        /\ files[key].mtime > session_modules[s][m].timestamp
        /\ \E v \in committed[key] : Author(v) # s

\* a read of module m in session s returns after the step what it returned
\* before it, unless the step is a set_item of s on m
KeepsSnapshot(s, m) ==
    \/ rp_dt_get_value_wrapper(s, m)' = rp_dt_get_value_wrapper(s, m)
    \/ set_item(s, m)

\* C2 as stated: a session whose copy of a module is older than the module's
\* file, because another session has committed since, keeps reading its copy
\* through every step that is not a refresh or a commit of its own
C2_SnapshotUntilRefreshOrCommit ==
    [][\A s \in sessions \cap sessions' : \A m \in {x \in ModuleNames : Stale(s, x)} :
          \/ KeepsSnapshot(s, m)
          \/ \E recent \in BOOLEAN : refresh(s, recent)
          \/ commit_finish /\ c_ctx.session = s]_vars

\* C2, amended: a session that has loaded a module keeps reading its copy
\* through every step that is not a refresh, a commit or a discard_changes of
\* its own, whatever other sessions commit meanwhile
C2_SnapshotUntilRefreshCommitOrDiscard ==
    [][\A s \in sessions \cap sessions' : \A m \in DOMAIN session_modules[s] :
          \/ KeepsSnapshot(s, m)
          \/ \E recent \in BOOLEAN : refresh(s, recent)
          \/ commit_finish /\ c_ctx.session = s
          \/ discard_changes(s)]_vars

\* B loaded the module, A then committed a change to it, and B still reads the
\* value it loaded
C2_Witness ==
    /\ {"A", "B"} \subseteq sessions
    /\ commit_lock_free
    /\ Modules[1] \in DOMAIN session_modules["B"]
    /\ ~ session_modules["B"][Modules[1]].modified
    /\ LET file == files[sr_get_data_file_name(Modules[1], datastore["B"])]
       IN  /\ file.mtime > session_modules["B"][Modules[1]].timestamp
           /\ file.content = "complete"
           /\ file.tree = {<<"A", 1>>}
    /\ committed[sr_get_data_file_name(Modules[1], datastore["B"])] = {<<"A", 1>>}
    /\ rp_dt_get_value_wrapper("B", Modules[1]).value = {InitialValue}

\* C3: once a commit has returned OK, a session of the same datastore that has
\* no copy of an edited module (as a session started afterwards) reads the
\* committed value of it
C3_NewSessionReadsCommitted ==
    \A s \in sessions : \A m \in ModuleNames \ DOMAIN session_modules[s] :
        LET key == sr_get_data_file_name(m, datastore[s])
        IN  committed[key] # {} =>
                rp_dt_get_value_wrapper(s, m) = [rc |-> SR_ERR_OK, value |-> committed[key]]

\* A's commit has returned OK and B, which has read the module since, got the
\* committed value
C3_Witness ==
    /\ "B" \in sessions
    /\ commit_lock_free
    /\ operations["A"] = <<>>
    /\ LET key == sr_get_data_file_name(Modules[1], datastore["B"])
       IN  /\ committed[key] = {<<"A", 1>>}
           /\ Modules[1] \in DOMAIN session_modules["B"]
           /\ session_modules["B"][Modules[1]] =
                 [node |-> {<<"A", 1>>}, timestamp |-> files[key].mtime, modified |-> FALSE]

\* the priority a subscriber subscribed with
Priority(id) == (CHOOSE sub \in Subscriptions : sub.id = id).priority

\* C14: in the list of the subscriptions one commit notified, in the order of
\* the np_subscription_notify calls, no subscription comes after one of
\* strictly lower priority
C14_NotifyInPriorityOrder ==
    \A i, j \in 1..Len(np_notified.subs) :
        i < j => Priority(np_notified.subs[i]) >= Priority(np_notified.subs[j])

\* C4 as stated: when a commit to running has written its files, every
\* subscription that asked to verify a modified module has been notified and
\* has answered
C4_VerifyBeforePersist ==
    (c_ctx.phase = "notify" /\ c_ctx.ds = SR_DS_RUNNING /\ c_ctx.rc = SR_ERR_OK) =>
        \A sub \in Subscriptions :
            (sub.verifier /\ sub.module \in Range(c_ctx.modified)) =>
                /\ sub.id \in Range(np_notified.subs)
                /\ sub.id \notin np_notified.pending

\* C5 as stated: a data file that no commit holds the write lock of, which is
\* what a reader under the shared lock gets to load, is a complete document
C5_ReaderSeesCompleteFile ==
    \A key \in Keys : ~ fd_write_locked(key) => files[key].content = "complete"

\* ------------------------------------- properties of the request processor
\* a worker thread is between the lock and the unlock of rp_req_dispatch
Processing(w, kinds) == pc[w] = "process" /\ req[w].operation \in kinds

\* a worker thread is in rp_msg_dispatch
Dispatching(w) == pc[w] \in {"dispatch", "process"}

\* C6: while a thread processes a COMMIT no thread processes a GET_ITEM, and
\* the thread holds commit_lock alone
C6_NoReadDuringCommit ==
    \A w \in Workers : Processing(w, {"COMMIT"}) =>
        /\ commit_lock = [readers |-> {}, writer |-> {w}]
        /\ \A v \in Workers \ {w} : ~ Processing(v, {"GET_ITEM", "COMMIT"})

\* a GET_ITEM is being processed and the COMMIT another thread has dequeued
\* waits for commit_lock
C6_Witness ==
    /\ Processing("w1", {"GET_ITEM"})
    /\ pc["w2"] = "dispatch" /\ req["w2"].operation = "COMMIT"
    /\ commit_lock = [readers |-> {"w1"}, writer |-> {}]
    /\ ~ ENABLED rp_req_dispatch_lock("w2")

\* C7 as stated: no two worker threads are in rp_msg_dispatch with messages of
\* the same session
C7_OneWorkerPerSession ==
    \A w \in Workers : \A v \in Workers \ {w} :
        (Dispatching(w) /\ Dispatching(v)) => req[w].session # req[v].session
\* ------------------------------------------- properties of the candidate
\* the tree has a node whose schema ancestry is not enabled
HasNotEnabledNode(tree) ==
    \E n \in tree : ~ dm_is_enabled_check_recursively(node_state, n)

\* C15: the commit of a candidate session is answered with
\* SR_ERR_OPERATION_FAILED if and only if the candidate tree of one of its
\* modified modules has a node whose schema ancestry is not enabled
C15_CommitFailsIffNotEnabled ==
    [][\A s \in Sessions :
          candidate_commit(s) =>
             LET replied == last_commit' # last_commit /\ last_commit'.s = s
             IN  (replied /\ last_commit'.rc = SR_ERR_OPERATION_FAILED)
                 <=> \E m \in Range(ModifiedModules(session_modules[s])) :
                        HasNotEnabledNode(session_modules[s][m].node)]_vars

\* ------------------------------------- properties of the operational data
\* C16: every read that was paused to wait for the data providers is answered
\* in the end, when the providers have all responded or when its timeout runs
\* out
C16_SuspendedReadAnswered ==
    \A id \in ReadIds : (id \in suspended) ~> (id \in answered)

\* ------------------------------------- properties of the commit contexts
\* C17: the id of the commit context of a commit is not
\* DM_COMMIT_CTX_ID_INVALID and is the id of no context in commit_ctxs, so no
\* two contexts have the same id; and the loop that generates the id makes at
\* most DM_COMMIT_CTX_ID_MAX_ATTEMPTS rounds without an id before the commit
\* fails with SR_ERR_INTERNAL
C17_CommitCtxIdUnique ==
    /\ new_ctx.phase = "commit" =>
          /\ new_ctx.id # DM_COMMIT_CTX_ID_INVALID
          /\ new_ctx.id \notin commit_ctxs
    /\ new_ctx.phase = "generate" => new_ctx.attempts <= DM_COMMIT_CTX_ID_MAX_ATTEMPTS

\* ----------------------------------------- properties of the file writes
\* C18, as the specification has it: a commit whose write of one module's file
\* fails writes the file of no modified module that comes after it
C18_WriteFailureStops ==
    [][(c_ctx.phase = "write" /\ c_ctx'.phase = "notify") =>
          \E outcome \in [Range(c_ctx.modified) -> WriteOutcomes] :
             /\ commit_write(outcome)
             /\ \A i, j \in 1..Len(c_ctx.modified) :
                   (i < j /\ outcome[c_ctx.modified[i]] # "ok") =>
                      LET key == sr_get_data_file_name(c_ctx.modified[j], c_ctx.ds)
                      IN  files'[key] = files[key]]_vars

\* C18: a commit whose write of one module's file fails goes on with the other
\* modified modules: every module whose write does not fail has the complete
\* tree of the commit in its file, the file of a module that was not modified is
\* left alone, and dm_commit_write_files returns SR_ERR_INTERNAL
C18_WriteFailureGoesOn ==
    [][\A outcome \in [Range(c_ctx.modified) -> WriteOutcomes] :
          (commit_write(outcome) /\ \E m \in Range(c_ctx.modified) : outcome[m] # "ok") =>
             /\ c_ctx'.rc = SR_ERR_INTERNAL
             /\ \A key \in Keys :
                   IF key \in c_ctx.fds
                   THEN outcome[key[1]] = "ok" =>
                           files'[key] = [content |-> "complete", tree |-> c_ctx.trees[key[1]],
                                          mtime |-> clock]
                   ELSE files'[key] = files[key]]_vars

\* a commit of both modules has ended with SR_ERR_INTERNAL: the file of the
\* first module is cut short and the file of the second holds the commit's tree
C18_Witness ==
    /\ last_commit.rc = SR_ERR_INTERNAL
    /\ files[sr_get_data_file_name(Modules[1], SR_DS_STARTUP)].content = "partial"
    /\ files[sr_get_data_file_name(Modules[2], SR_DS_STARTUP)].content = "complete"
    /\ files[sr_get_data_file_name(Modules[2], SR_DS_STARTUP)].tree # {}

\* --------------------------------------------- properties of validation
\* the trees of a working set without the state data of the providers
ConfigData(infos) == [m \in DOMAIN infos |-> [infos[m] EXCEPT !.node = @ \ {StateValue}]]

ValidationFails(s, invalid) ==
    \/ /\ validate(s, invalid)
       /\ last_lock'.rc = SR_ERR_VALIDATION_FAILED
    \/ commit_invalid(s, FALSE, invalid)

\* C19, as the specification has it: a validate or commit request that ends
\* with SR_ERR_VALIDATION_FAILED leaves the session's operations and every
\* modified tree of the session as they were
C19_ValidationFailureLeavesTrees ==
    [][\A s \in Sessions, invalid \in SUBSET DataModules :
          ValidationFails(s, invalid) =>
             /\ operations'[s] = operations[s]
             /\ \A m \in Range(ModifiedModules(session_modules[s])) :
                   /\ m \in DOMAIN session_modules'[s]
                   /\ session_modules'[s][m] = session_modules[s][m]]_vars

\* C19: a validate or commit request that ends with SR_ERR_VALIDATION_FAILED
\* leaves the session's operations as they were and the session's trees with the
\* configuration data they had: only state data of the providers is removed
C19_ValidationFailureLeavesConfig ==
    [][\A s \in Sessions, invalid \in SUBSET DataModules :
          ValidationFails(s, invalid) =>
             /\ operations'[s] = operations[s]
             /\ ConfigData(session_modules'[s]) = ConfigData(session_modules[s])]_vars

\* session A, which has edited the module, was told that the validation
\* failed: the edit is in its tree and in its log
C19_Witness ==
    /\ last_lock = Op("validate", "A", "", SR_ERR_VALIDATION_FAILED)
    /\ operations["A"] # <<>>
    /\ Modules[1] \in DOMAIN session_modules["A"]
    /\ session_modules["A"][Modules[1]].modified
    /\ \E v \in session_modules["A"][Modules[1]].node : v[1] = "A"

\* ------------------------------------------ properties of discard_changes
\* C20: discard_changes leaves the session without operations and without
\* copies, so that what a read of a module then gives the session is what the
\* data file of the module gives (its tree, SR_ERR_NOT_FOUND for an empty one,
\* the failure of the load) and not the tree the session had edited
C20_DiscardChangesReloads ==
    [][\A s \in Sessions :
          discard_changes(s) =>
             /\ operations'[s] = <<>>
             /\ session_modules'[s] = NoModules
             /\ \A m \in ModuleNames :
                   LET read == rp_dt_get_value_wrapper(s, m)'
                       stored == dm_load_data_tree(m, datastore[s])'
                   IN  /\ read.value = stored.info.node
                       /\ read.rc = IF stored.rc # SR_ERR_OK THEN stored.rc
                                    ELSE IF stored.info.node = {} THEN SR_ERR_NOT_FOUND
                                    ELSE SR_ERR_OK]_vars

\* session A, the only session so far, has edited a module and has neither
\* operations nor copies although no file was written: it discarded its edit
C20_Witness ==
    /\ sessions = {"A"}
    /\ edits > 0
    /\ operations["A"] = <<>>
    /\ session_modules["A"] = NoModules
    /\ \A key \in Keys : files[key] = InitFile
    /\ rp_dt_get_value_wrapper("A", Modules[1]).value = {InitialValue}

\* --------------------------------------------- properties of the schemas
\* C21: a module stays in disabled_sch once it is there, every lookup of a
\* module of disabled_sch (dm_find_module_schema as well as dm_get_module, on
\* which GET_SCHEMA and FEATURE_ENABLE rely) gives SR_ERR_UNKNOWN_MODEL, and no
\* request for such a module is answered with SR_ERR_OK
C21_UninstalledStaysUnknown ==
    /\ \A m \in disabled_sch :
          /\ dm_find_module_schema(m).rc = SR_ERR_UNKNOWN_MODEL
          /\ dm_get_module(ly_ctx, m).rc = SR_ERR_UNKNOWN_MODEL
    /\ (last_req.op \in {"install", "get_schema", "feature_enable", "feature_disable"}
        /\ last_req.arg \in disabled_sch) => last_req.rc # SR_ERR_OK

\* C22: a FEATURE_ENABLE request whose pm_save_feature_state fails leaves the
\* enabled features of the module as they were before the request and is
\* answered with what pm_save_feature_state returned
C22_FeatureRollback ==
    [][\A m \in SchemaNames, f \in FeatureNames, enable \in BOOLEAN :
          (/\ feature_enable(m, f, enable, SR_ERR_IO)
           /\ dm_feature_enable(ly_ctx, features, m, f, enable).rc = SR_ERR_OK) =>
             /\ features' = features
             /\ last_req'.rc = SR_ERR_IO]_vars

\* ------------------------------------------- properties of copy_config
\* what a datastore holds of module m for session s: the tree of the data
\* file, for the candidate the tree of the session
Content(s, infos, fs, ds, m) ==
    IF ds = SR_DS_CANDIDATE
    THEN IF m \in DOMAIN infos THEN [rc |-> SR_ERR_OK, node |-> infos[m].node]
         ELSE [rc |-> SR_ERR_OK,
               node |-> IF fs[<<m, SR_DS_RUNNING>>].content = "complete"
                        THEN fs[<<m, SR_DS_RUNNING>>].tree ELSE {}]
    ELSE [rc |-> IF fs[<<m, ds>>].content = "partial" THEN SR_ERR_INTERNAL ELSE SR_ERR_OK,
          node |-> IF fs[<<m, ds>>].content = "complete" THEN fs[<<m, ds>>].tree ELSE {}]

\* C23: after a COPY_CONFIG request answered with SR_ERR_OK the destination
\* holds, of every module of the request, what the source held of it
C23_CopyConfigCopies ==
    [][\A s \in Sessions, mods \in CopyLists, src \in CopyDatastores, dst \in CopyDatastores :
          (/\ \E invalid \in SUBSET {Modules[1]}, open_fail \in 0..Len(Modules),
                 print_fail \in SUBSET {Modules[1]} :
                    copy_config(s, mods, src, dst, invalid, open_fail, print_fail)
           /\ last_req'.rc = SR_ERR_OK) =>
             \A m \in Range(mods) :
                Content(s, session_modules'[s], files', dst, m)
                   = Content(s, session_modules[s], files, src, m)]_vars

\* ------------------------------------- properties of the commit of a stale copy
\* the leaves of module m that the operations of session s set
Touched(s, m) == {Leaf(o.value) : o \in {x \in Range(operations[s]) : x.module = m}}

\* what the data file of module m holds on the leaves that s has not set
Kept(s, m) ==
    {v \in dm_load_data_tree(m, datastore[s]).info.node : Leaf(v) \notin Touched(s, m)}

\* the copy of s lacks a value that was committed since s loaded the module
StaleCopy(s, m) == ~ (Kept(s, m) \subseteq session_modules[s][m].node)

C24_Witness ==
    /\ c_ctx.phase = "write"
    /\ c_ctx.session = "B"
    /\ StaleCopy("B", Modules[1])
    /\ \E v \in c_ctx.trees[Modules[1]] : v[1] = "A" /\ Leaf(v) = "x"
    /\ \E v \in c_ctx.trees[Modules[1]] : v[1] = "B" /\ Leaf(v) = "y"

C25_FreshOnlyIf ==
    (last_req.op = "dm_is_info_copy_uptodate" /\ last_req.rc = TRUE) =>
        /\ Before(last_req.arg.st_mtim, last_req.arg.timestamp)
        /\ Before(last_req.arg.lct, last_req.arg.timestamp)
        /\ Nanoseconds(last_req.arg.st_mtim, last_req.arg.now) > NANOSEC_THRESHOLD

\* the part of C25 about the current time alone: a copy is judged fresh only if
\* the mtime is at least NANOSEC_THRESHOLD before the current time
C25_FreshOnlyIfNotRecent ==
    (last_req.op = "dm_is_info_copy_uptodate" /\ last_req.rc = TRUE) =>
        Nanoseconds(last_req.arg.st_mtim, last_req.arg.now) >= NANOSEC_THRESHOLD

\* ------------------------------------------ properties of the request mutex
\* C26: the state of a session's request and session->req are read and written
\* only by a thread that holds the session's cur_req_mutex
C26_RequestAccessUnderMutex == unprotected = {}

\* the weaker statement that no access without the mutex is made while another
\* worker holds it, between the lock and the unlock of rp_get_item_req_process
C26_NoAccessWhileLocked ==
    [][\A x \in unprotected' \ unprotected : cur_req_mutex[x.session] = ""]_vars

\* ------------------------------------ properties of the resumption of a read
\* C27: a read that was paused is passed to rp_msg_process again at most once,
\* by the last response of the data providers or by its timeout: it is never
\* twice among the reads waiting to be dispatched
C27_ResumedAtMostOnce ==
    \A i, j \in 1..Len(oper_queue) : i # j => oper_queue[i].id # oper_queue[j].id

\* the response r is one rp_data_provide_resp_process accepts: the session
\* waits for data, for the read the response belongs to
Accepted(r) ==
    /\ rp_state[r.session] = RP_REQ_WAITING_FOR_DATA
    /\ cur_req[r.session] # NoMsg
    /\ cur_req[r.session] = r.request_id

\* C28: every accepted response of a data provider takes one from
\* dp_req_waiting of the session; when that makes it 0 the session becomes
\* RP_REQ_DATA_LOADED and the read it keeps is put in the queue again, and else
\* the session goes on waiting and the queue is as it was
C28_ResponseCounted ==
    [][\A r \in dp_requests :
          (dp_requests' = dp_requests \ {r} /\ Accepted(r)) =>
             LET s == r.session
             IN  /\ dp_req_waiting'[s] = dp_req_waiting[s] - 1
                 /\ IF dp_req_waiting'[s] = 0
                    THEN /\ rp_state'[s] = RP_REQ_DATA_LOADED
                         /\ oper_queue' = Append(oper_queue, [session |-> s, id |-> cur_req[s]])
                    ELSE /\ rp_state'[s] = RP_REQ_WAITING_FOR_DATA
                         /\ oper_queue' = oper_queue]_vars

\* the last response has arrived: the session has its data, no
\* response is outstanding, and the read it keeps waits in the queue
C28_Witness ==
    \E s \in Sessions :
       /\ rp_state[s] = RP_REQ_DATA_LOADED
       /\ dp_req_waiting[s] = 0
       /\ \A r \in dp_requests : r.session # s
       /\ \E i \in 1..Len(oper_queue) : oper_queue[i] = [session |-> s, id |-> cur_req[s]]
       /\ \A t \in timers : t.session # s

\* ------------------------------------------ properties of the request queue
\* C29: a message rp_msg_process has put in the request queue is dequeued and
\* dispatched by a worker thread in the end, whether or not another message
\* follows it
C29_NoLostWakeup == (request_queue # <<>>) ~> (request_queue = <<>>)

\* ------------------------------------------ properties of the session stop
\* the messages of session s that are in the request queue or with a worker
InFlight(s) ==
    Cardinality({i \in 1..Len(request_queue) : request_queue[i].session = s})
       + Cardinality({w \in Workers : req[w].session = s})

C31_FailedCommitTouchesNoFile ==
    [][\A s \in Sessions, unauthorized \in SUBSET ModuleNames, fd_locked \in SUBSET ModuleNames :
          commit_open_fail(s, unauthorized, fd_locked) => files' = files]_vars

\* ----------------------------------------- properties of truncating data files
\* C32: a COPY_CONFIG request that fails on a module lock, before it has
\* written the new content of any module, leaves in every data file the content
\* the file had
C32_NoTruncateBeforeWrite ==
    [][\A s \in Sessions, mods \in CopyLists, src \in CopyDatastores, dst \in CopyDatastores :
          (/\ \E invalid \in SUBSET {Modules[1]}, open_fail \in 0..Len(Modules),
                 print_fail \in SUBSET {Modules[1]} :
                    copy_config(s, mods, src, dst, invalid, open_fail, print_fail)
           /\ last_req'.rc = SR_ERR_LOCKED) =>
             \A key \in Keys : /\ files'[key].content = files[key].content
                               /\ files'[key].tree = files[key].tree]_vars

\* ------------------------------------ properties of matching subscriptions
\* C33: a subscription with the schema node S matches a diff entry on a node of
\* schema D if and only if S is absent, or S is D or an ancestor of D, or D is
\* an ancestor of S, the entry is CREATED or DELETED and the subtree of the
\* node has a node of schema S
C33_MatchIff ==
    last_req.op = "match_subscription" =>
       LET S == last_req.arg[1]
           D == last_req.arg[2]
           type == last_req.arg[3]
           subtree == last_req.arg[4]
       IN  last_req.rc <=>
              \/ S = NoNode
              \/ S \in {D} \cup Ancestors(D)
              \/ /\ D \in Ancestors(S)
                 /\ type \in {"LYD_DIFF_CREATED", "LYD_DIFF_DELETED"}
                 /\ S \in subtree

\* -------------------------------------- properties of the enablement traversals
\* C34: the traversal that checks a candidate tree for not-enabled nodes at a
\* commit and the one that prunes the not-enabled nodes of a tree loaded from
\* running come to an end: no request stays in one of them for ever
C34_TraversalsTerminate == hung = {}

C36_FailedLockKeepsHeldLocks ==
    [][\A s \in Sessions : \A denied \in SUBSET ModuleNames :
          (lock_datastore(s, denied) /\ last_lock'.rc # SR_ERR_OK) =>
              locked_files[s] \subseteq locked_files'[s]]_vars

\* ---------------------------------- properties of reads in notification sessions
\* C37: a get_item request in a notification session whose commit context is
\* not in the registry is answered with a result that is not SR_ERR_OK and with
\* no data
C37_MissingContextFails ==
    (last_req.op = "get_item" /\ ~ last_req.arg[2]) =>
       /\ last_req.rc # SR_ERR_OK
       /\ last_req.arg[3] = {}

\* ------------------------------------------ properties of the replay of the log
\* seq is what is left of the sequence ops after some of its elements were
\* taken out
RECURSIVE IsSubSeq(_, _)
IsSubSeq(seq, ops) ==
    IF seq = <<>> THEN TRUE
    ELSE IF ops = <<>> THEN FALSE
    ELSE IF Head(seq) = Head(ops) THEN IsSubSeq(Tail(seq), Tail(ops))
    ELSE IsSubSeq(seq, Tail(ops))

\* C38, as the specification has it: the replay of the log ends, and it ends
\* with trees that validate
C38_ReplayEndsValid ==
    last_req.op = "replay" => (last_req.arg[3] /\ last_req.rc = SR_ERR_OK)

\* C38: the replay of the log ends after no more rounds than the log has
\* operations, and one: every round in which an operation failed has taken an
\* operation out of the log, and the log it leaves is what is left of the log
\* it began with
C38_ReplayConverges ==
    [][\A s \in Sessions :
          (/\ last_req'.op = "replay"
           /\ last_req'.s = s
           /\ last_req'.arg[1] = operations[s]
           /\ edits' = edits) =>
             /\ last_req'.arg[3]
             /\ last_req'.arg[2] <= Len(operations[s]) + 1
             /\ Len(operations'[s]) <= Len(operations[s]) - (last_req'.arg[2] - 1)
             /\ IsSubSeq(operations'[s], operations[s])]_vars

\* a replay that took three rounds, two of them with an operation that failed,
\* and left trees that do not validate
C38_Witness ==
    /\ last_req.op = "replay"
    /\ last_req.arg[3]
    /\ last_req.arg[2] = 3
    /\ last_req.rc = SR_ERR_VALIDATION_FAILED

\* ------------------------------------------ properties of NACM read filtering
\* C39: the tree that NACM read filtering returns, when nothing undefined has
\* happened in it, has no node that the user is denied to read
C39_NoDeniedNodeReturned ==
    (/\ last_req.op = "nacm_filtering"
     /\ last_req.rc.outcome = "returns"
     /\ ~ last_req.rc.ub) =>
        last_req.rc.result \cap last_req.arg[2] = {}

\* ------------------------------------------------ properties of the spin limit
\* C40: the spin limit of the worker threads is 0 or a value from
\* RP_THREAD_SPIN_MIN to RP_THREAD_SPIN_MAX
C40_SpinLimitInRange ==
    \/ thread_spin_limit = 0
    \/ /\ RP_THREAD_SPIN_MIN <= thread_spin_limit
       /\ thread_spin_limit <= RP_THREAD_SPIN_MAX

====
